---- MODULE Spec2Model ----
(***************************************************************************)
(* Model of the StackTics packing engine (backend/app/optimizer/engine.py) *)
(* and of the domain types it works on (backend/app/models.py).            *)
(*                                                                         *)
(* Lengths are integers counting grid steps of 1/Unit cm, so that every    *)
(* coordinate the engine computes (sums of dimensions, margins and         *)
(* padding) is exact.  The engine's tolerances are kept as the decimal     *)
(* fractions of a centimetre the source writes: "abs(d) > 0.1" is          *)
(* 10 * Abs(d) > Unit and "z <= floor + 0.001" is                          *)
(* 1000 * z <= 1000 * floor + Unit.  Weights are whole kilograms.  Scores  *)
(* are kept exact by scaling them with a positive factor, which preserves  *)
(* every comparison the engine makes between two scores.                   *)
(***************************************************************************)
EXTENDS Integers, Sequences, FiniteSets, TLC

VARIABLES bed, boxes, settings,        \* the three arguments of optimize_packing
          pc,                          \* position inside optimize_packing
          sorted_boxes,                \* engine.py:560
          idx,                         \* index of the next box of the for loop, engine.py:566
          placed_boxes,                \* engine.py:533
          placements,                  \* engine.py:532
          unplaced_box_ids,            \* engine.py:534
          metrics                      \* engine.py:611, the returned dict

vars == <<bed, boxes, settings, pc, sorted_boxes, idx, placed_boxes,
          placements, unplaced_box_ids, metrics>>

-----------------------------------------------------------------------------
(* Bounds of the model. *)

\* grid steps per centimetre
Unit == 16

\* largest number of boxes in a request
MaxBoxes == 3

-----------------------------------------------------------------------------
(* Arithmetic helpers. *)

Abs(n) == IF n < 0 THEN -n ELSE n

Min(a, b) == IF a <= b THEN a ELSE b

Max(a, b) == IF a >= b THEN a ELSE b

\* Optional[...] values: the empty sequence is None, <<v>> is the value v
None == <<>>

Some(v) == <<v>>

RECURSIVE SumSeq(_)
SumSeq(s) == IF s = <<>> THEN 0 ELSE Head(s) + SumSeq(Tail(s))

\* the elements of s whose index is in the set keep, in the order of s:
\* what a loop over s that appends the elements passing a test builds
Keep(s, keep) ==
    LET index == [k \in 1..Cardinality(keep) |->
                     CHOOSE i \in keep : Cardinality({j \in keep : j < i}) = k - 1]
    IN [k \in 1..Cardinality(keep) |-> s[index[k]]]

RECURSIVE Concat(_)
Concat(ss) == IF ss = <<>> THEN <<>> ELSE Head(ss) \o Concat(Tail(ss))

-----------------------------------------------------------------------------
(* models.py: Box.__post_init__ fills in max_supported_load. *)

DefaultMaxSupportedLoad(fragility) ==
    CASE fragility = "robust" -> 50
      [] fragility = "normal" -> 20
      [] fragility = "fragile" -> 5
      [] OTHER -> 20

Box(b) ==
    IF b.max_supported_load = None
    THEN [b EXCEPT !.max_supported_load = Some(DefaultMaxSupportedLoad(b.fragility))]
    ELSE b

-----------------------------------------------------------------------------
(* engine.py: PlacedBox end coordinates. *)

x_end(pb) == pb.placement.x + pb.placed_length

y_end(pb) == pb.placement.y + pb.placed_width

z_end(pb) == pb.placement.z + pb.placed_height

-----------------------------------------------------------------------------
(* engine.py: rounded corners.  Points are passed in half grid steps       *)
(* (doubled coordinates) because the edge midpoints are box_length / 2.    *)
(* distance > radius is compared on the squares.                           *)

point_in_corner_exclusion(px, py, corner_x, corner_y, radius, corner_type) ==
    IF radius <= 0 THEN FALSE
    ELSE LET dx == px - corner_x
             dy == py - corner_y
             in_square ==
                 CASE corner_type = "bottom_left" -> px < corner_x /\ py < corner_y
                   [] corner_type = "bottom_right" -> px > corner_x /\ py < corner_y
                   [] corner_type = "top_left" -> px < corner_x /\ py > corner_y
                   [] corner_type = "top_right" -> px > corner_x /\ py > corner_y
                   [] OTHER -> FALSE
         IN in_square /\ dx * dx + dy * dy > radius * radius

\* box_intersects_corner as it would be if only the four edge midpoints
\* were sampled
box_intersects_corner_MidpointsOnly(box_x, box_y, box_length, box_width, bed_length, bed_width, corner_radius, total_margin) ==
    IF corner_radius <= 0 THEN FALSE
    ELSE \E p \in { <<2 * box_x + box_length, 2 * box_y>>,
                     <<2 * box_x + box_length, 2 * (box_y + box_width)>>,
                     <<2 * box_x, 2 * box_y + box_width>>,
                     <<2 * (box_x + box_length), 2 * box_y + box_width>> } :
           \E c \in { <<2 * (total_margin + corner_radius),
                         2 * (total_margin + corner_radius), "bottom_left">>,
                       <<2 * (bed_length - total_margin - corner_radius),
                         2 * (total_margin + corner_radius), "bottom_right">>,
                       <<2 * (total_margin + corner_radius),
                         2 * (bed_width - total_margin - corner_radius), "top_left">>,
                       <<2 * (bed_length - total_margin - corner_radius),
                         2 * (bed_width - total_margin - corner_radius), "top_right">> } :
               point_in_corner_exclusion(p[1], p[2], c[1], c[2],
                                         2 * corner_radius, c[3])

box_intersects_corner(box_x, box_y, box_length, box_width, bed_length, bed_width, corner_radius, total_margin) ==
    IF corner_radius <= 0 THEN FALSE
    ELSE LET corners == {
                 <<2 * (total_margin + corner_radius),
                   2 * (total_margin + corner_radius), "bottom_left">>,
                 <<2 * (bed_length - total_margin - corner_radius),
                   2 * (total_margin + corner_radius), "bottom_right">>,
                 <<2 * (total_margin + corner_radius),
                   2 * (bed_width - total_margin - corner_radius), "top_left">>,
                 <<2 * (bed_length - total_margin - corner_radius),
                   2 * (bed_width - total_margin - corner_radius), "top_right">> }
             check_points == {
                 <<2 * box_x, 2 * box_y>>,
                 <<2 * (box_x + box_length), 2 * box_y>>,
                 <<2 * box_x, 2 * (box_y + box_width)>>,
                 <<2 * (box_x + box_length), 2 * (box_y + box_width)>>,
                 <<2 * box_x + box_length, 2 * box_y>>,
                 <<2 * box_x + box_length, 2 * (box_y + box_width)>>,
                 <<2 * box_x, 2 * box_y + box_width>>,
                 <<2 * (box_x + box_length), 2 * box_y + box_width>> }
         IN \E p \in check_points : \E c \in corners :
                point_in_corner_exclusion(p[1], p[2], c[1], c[2],
                                          2 * corner_radius, c[3])

-----------------------------------------------------------------------------
(* engine.py: orientation enumerator. *)

permutations ==
    << <<"length", "width", "height">>,
       <<"length", "height", "width">>,
       <<"width", "length", "height">>,
       <<"width", "height", "length">>,
       <<"height", "length", "width">>,
       <<"height", "width", "length">> >>

\* dims[axis] of engine.py:201
Dim(box, axis) ==
    CASE axis = "length" -> box.length
      [] axis = "width" -> box.width
      [] axis = "height" -> box.height

\* the rotation-flag test as it would be if the flags were not read
OrientationAllowed_Always(box, p) == TRUE

\* the rotation-flag test of engine.py:221-235
OrientationAllowed(box, p) ==
    LET l_axis == p[1]
        w_axis == p[2]
        h_axis == p[3]
        is_original == l_axis = "length" /\ w_axis = "width" /\ h_axis = "height"
    IN IF is_original THEN TRUE
       ELSE /\ (l_axis # "length" \/ w_axis # "width") => box.can_rotate_z
            /\ (h_axis # "height" /\ (w_axis = "height" \/ h_axis = "width"))
                   => box.can_rotate_x
            /\ (h_axis # "height" /\ (l_axis = "height" \/ h_axis = "length"))
                   => box.can_rotate_y

\* the duplicate test as it would be if no two orientations counted as equal
SamePlacedDims_Never(o1, o2) == FALSE

\* abs(a - b) < 0.001 on all three placed dimensions, engine.py:246-251
SamePlacedDims(o1, o2) ==
    /\ 1000 * Abs(o1[1] - o2[1]) < Unit
    /\ 1000 * Abs(o1[2] - o2[2]) < Unit
    /\ 1000 * Abs(o1[3] - o2[3]) < Unit

RECURSIVE OrientationsFrom(_, _, _)
OrientationsFrom(box, k, orientations) ==
    IF k > Len(permutations) THEN orientations
    ELSE LET p == permutations[k]
             o == <<Dim(box, p[1]), Dim(box, p[2]), Dim(box, p[3]), p>>
         IN IF /\ OrientationAllowed(box, p)
               /\ ~ \E i \in DOMAIN orientations : SamePlacedDims(o, orientations[i])
            THEN OrientationsFrom(box, k + 1, Append(orientations, o))
            ELSE OrientationsFrom(box, k + 1, orientations)

get_box_orientations(box) == OrientationsFrom(box, 1, <<>>)

-----------------------------------------------------------------------------
(* engine.py: box-ordering heuristic.  The returned number is the source's *)
(* score times 200 * Unit^3: volumes are counted in cubic grid steps and   *)
(* accessibility_preference in halves (0, 1, 2 stand for 0.0, 0.5, 1.0).   *)

ScoreScale == 200 * Unit * Unit * Unit

fragility_scores(fragility) ==
    CASE fragility = "robust" -> 0
      [] fragility = "normal" -> 50
      [] fragility = "fragile" -> 100
      [] OTHER -> 50

frequency_scores(access_frequency) ==
    CASE access_frequency = "often" -> 200
      [] access_frequency = "sometimes" -> 100
      [] access_frequency = "rare" -> 0
      [] OTHER -> 100

calculate_box_score(box, accessibility_preference) ==
    LET priority_term == IF box.priority = "must_fit" THEN 0 ELSE 1000
        volume == box.length * box.width * box.height
    IN   ScoreScale * priority_term
       - ScoreScale * box.weight * 10
       + ScoreScale * fragility_scores(box.fragility)
       + (ScoreScale \div 2) * frequency_scores(box.access_frequency)
                             * accessibility_preference
       - 2 * volume

\* the insertion as it would be in a sort that puts a box before the boxes
\* of equal score
RECURSIVE InsertByScore_BeforeEqual(_, _, _)
InsertByScore_BeforeEqual(s, b, accessibility_preference) ==
    IF s = <<>> THEN <<b>>
    ELSE IF calculate_box_score(s[Len(s)], accessibility_preference)
               < calculate_box_score(b, accessibility_preference)
         THEN Append(s, b)
         ELSE Append(InsertByScore_BeforeEqual(SubSeq(s, 1, Len(s) - 1), b,
                                               accessibility_preference),
                     s[Len(s)])

\* sorted(boxes, key=...) of engine.py:560-563: ascending and stable.
\* InsertByScore puts b behind every box whose score is not larger.
RECURSIVE InsertByScore(_, _, _)
InsertByScore(s, b, accessibility_preference) ==
    IF s = <<>> THEN <<b>>
    ELSE IF calculate_box_score(s[Len(s)], accessibility_preference)
               <= calculate_box_score(b, accessibility_preference)
         THEN Append(s, b)
         ELSE Append(InsertByScore(SubSeq(s, 1, Len(s) - 1), b,
                                   accessibility_preference),
                     s[Len(s)])

RECURSIVE SortedFrom(_, _, _, _)
SortedFrom(bs, k, acc, accessibility_preference) ==
    IF k > Len(bs) THEN acc
    ELSE SortedFrom(bs, k + 1,
                    InsertByScore(acc, bs[k], accessibility_preference),
                    accessibility_preference)

sorted(bs, accessibility_preference) ==
    SortedFrom(bs, 1, <<>>, accessibility_preference)

-----------------------------------------------------------------------------
(* engine.py: support and load analyzer. *)

\* footprint intersection of engine.py:335-341, 0 when there is none
overlap_area(x, y, length, width, placed) ==
    LET overlap_x_start == Max(x, placed.placement.x)
        overlap_x_end == Min(x + length, x_end(placed))
        overlap_y_start == Max(y, placed.placement.y)
        overlap_y_end == Min(y + width, y_end(placed))
    IN IF overlap_x_end > overlap_x_start /\ overlap_y_end > overlap_y_start
       THEN (overlap_x_end - overlap_x_start) * (overlap_y_end - overlap_y_start)
       ELSE 0

\* engine.py:343-346 for the boxes that passed the tests of engine.py:331-341.
\* The support ratio is the pair <<numerator, denominator>>.
SupportBy(x, y, length, width, supporting) ==
    [support_ratio |->
         <<Min(SumSeq([i \in DOMAIN supporting |->
                          overlap_area(x, y, length, width, supporting[i])]),
               length * width),
           length * width>>,
     supporting |-> supporting]

get_support_at_position(x, y, z, length, width, placed_bs, bed_floor_z, padding) ==
    IF 1000 * z <= 1000 * bed_floor_z + Unit
    THEN [support_ratio |-> <<1, 1>>, supporting |-> <<>>]
    ELSE IF length * width <= 0
         THEN [support_ratio |-> <<0, 1>>, supporting |-> <<>>]
         ELSE SupportBy(x, y, length, width,
                  Keep(placed_bs, {i \in DOMAIN placed_bs :
                      /\ ~ (10 * Abs(z_end(placed_bs[i]) + padding - z) > Unit)
                      /\ overlap_area(x, y, length, width, placed_bs[i]) > 0}))

\* boxes_by_id = {box.id: box for box in boxes}, engine.py:557
BoxesById(bs) ==
    [i \in {bs[k].id : k \in DOMAIN bs} |->
        bs[CHOOSE k \in DOMAIN bs :
              bs[k].id = i /\ \A j \in DOMAIN bs : j > k => bs[j].id # i]]

\* the sum of engine.py:366-376 over the boxes counted as resting on the support
WeightOf(resting, boxes_by_id) ==
    SumSeq([i \in DOMAIN resting |-> boxes_by_id[resting[i].box.id].weight])

\* current_load of engine.py:366-376; the inner support test is called
\* without a padding argument, so it runs with the default padding = 0
current_load(support, placed_bs, boxes_by_id) ==
    WeightOf(Keep(placed_bs, {i \in DOMAIN placed_bs :
                 /\ 10 * placed_bs[i].placement.z > 10 * z_end(support) - Unit
                 /\ get_support_at_position(
                        placed_bs[i].placement.x, placed_bs[i].placement.y,
                        placed_bs[i].placement.z, placed_bs[i].placed_length,
                        placed_bs[i].placed_width,
                        <<support>>, support.placement.z, 0).supporting # <<>>}),
             boxes_by_id)

\* the load check as it would be if the weight of the candidate were passed
\* down to the boxes its supporters rest on
check_load_constraint_PassedDown(box, supporting_boxes, placed_bs, boxes_by_id) ==
    \A i \in DOMAIN supporting_boxes :
        /\ \/ boxes_by_id[supporting_boxes[i].box.id].max_supported_load = None
           \/ ~ (current_load(supporting_boxes[i], placed_bs, boxes_by_id) + box.weight
                    > boxes_by_id[supporting_boxes[i].box.id].max_supported_load[1])
        /\ \A k \in DOMAIN placed_bs :
              get_support_at_position(
                  supporting_boxes[i].placement.x, supporting_boxes[i].placement.y,
                  supporting_boxes[i].placement.z, supporting_boxes[i].placed_length,
                  supporting_boxes[i].placed_width,
                  <<placed_bs[k]>>, placed_bs[k].placement.z, 0).supporting # <<>>
              => \/ boxes_by_id[placed_bs[k].box.id].max_supported_load = None
                 \/ ~ (current_load(placed_bs[k], placed_bs, boxes_by_id) + box.weight
                          > boxes_by_id[placed_bs[k].box.id].max_supported_load[1])

check_load_constraint(box, supporting_boxes, placed_bs, boxes_by_id) ==
    IF supporting_boxes = <<>> THEN TRUE
    ELSE \A i \in DOMAIN supporting_boxes :
            LET support == supporting_boxes[i]
                support_box == boxes_by_id[support.box.id]
            IN \/ support_box.max_supported_load = None
               \/ ~ (current_load(support, placed_bs, boxes_by_id) + box.weight
                        > support_box.max_supported_load[1])

check_fragility_constraint(box, supporting_boxes) ==
    \A i \in DOMAIN supporting_boxes :
        LET support == supporting_boxes[i]
        IN /\ ~ (support.box.fragility = "fragile" /\ box.weight > 5)
           /\ ~ (support.box.fragility = "normal" /\ box.weight > 15)

-----------------------------------------------------------------------------
(* engine.py: candidate generator, feasibility filter and strategy score.  *)
(* A bed is a record whose corner_radius is None when the object has no    *)
(* such attribute (the dataclass of models.py declares length, width,      *)
(* height and margin only) and Some(r) when it has one.                    *)

\* the candidates as they would be if the point right of a placed box were
\* one grid step beyond the padding
candidate_positions_GapRight(placed_bs, usable_space, padding) ==
    << <<usable_space.x, usable_space.y, usable_space.z>> >>
    \o Concat([i \in DOMAIN placed_bs |->
          LET placed == placed_bs[i]
          IN << <<x_end(placed) + padding + 1, placed.placement.y, placed.placement.z>>,
                <<placed.placement.x, y_end(placed) + padding, placed.placement.z>>,
                <<placed.placement.x, placed.placement.y, z_end(placed) + padding>> >>])

candidate_positions(placed_bs, usable_space, padding) ==
    << <<usable_space.x, usable_space.y, usable_space.z>> >>
    \o Concat([i \in DOMAIN placed_bs |->
          LET placed == placed_bs[i]
          IN << <<x_end(placed) + padding, placed.placement.y, placed.placement.z>>,
                <<placed.placement.x, y_end(placed) + padding, placed.placement.z>>,
                <<placed.placement.x, placed.placement.y, z_end(placed) + padding>> >>])

\* engine.py:439-444
InBounds(c, length, width, height, usable_space) ==
    /\ ~ (c[1] < usable_space.x \/ c[1] + length > usable_space.x + usable_space.length)
    /\ ~ (c[2] < usable_space.y \/ c[2] + width > usable_space.y + usable_space.width)
    /\ ~ (c[3] < usable_space.z \/ c[3] + height > usable_space.z + usable_space.height)

\* Collision as it would be with the plain overlap test, without the padding
Collision_NoPadding(c, length, width, height, placed_bs, padding) ==
    \E i \in DOMAIN placed_bs :
        LET placed == placed_bs[i]
        IN ~ (\/ c[1] + length <= placed.placement.x
              \/ x_end(placed) <= c[1]
              \/ c[2] + width <= placed.placement.y
              \/ y_end(placed) <= c[2]
              \/ c[3] + height <= placed.placement.z
              \/ z_end(placed) <= c[3])

\* engine.py:455-467
Collision(c, length, width, height, placed_bs, padding) ==
    \E i \in DOMAIN placed_bs :
        LET placed == placed_bs[i]
        IN ~ (\/ c[1] + length + padding <= placed.placement.x
              \/ x_end(placed) + padding <= c[1]
              \/ c[2] + width + padding <= placed.placement.y
              \/ y_end(placed) + padding <= c[2]
              \/ c[3] + height + padding <= placed.placement.z
              \/ z_end(placed) + padding <= c[3])

\* engine.py:478: at least 50% support above the floor, for the result
\* support of get_support_at_position
SupportOk(c, support, usable_space) ==
    ~ (/\ 10 * c[3] > 10 * usable_space.z + Unit
       /\ 2 * support.support_ratio[1] < support.support_ratio[2])

\* engine.py:478-485 for the result support of get_support_at_position
ConstraintsOk(box, c, support, placed_bs, boxes_by_id, usable_space) ==
    /\ SupportOk(c, support, usable_space)
    /\ check_load_constraint(box, support.supporting, placed_bs, boxes_by_id)
    /\ check_fragility_constraint(box, support.supporting)

\* the filter of engine.py:437-485 applied to one candidate
Feasible(box, c, length, width, height, placed_bs, boxes_by_id, usable_space, padding, b, total_margin) ==
    /\ InBounds(c, length, width, height, usable_space)
    /\ ~ box_intersects_corner(c[1], c[2], length, width, b.length, b.width,
                               b.corner_radius[1], total_margin)
    /\ ~ Collision(c, length, width, height, placed_bs, padding)
    /\ ConstraintsOk(box, c,
           get_support_at_position(c[1], c[2], c[3], length, width,
                                   placed_bs, usable_space.z, padding),
           placed_bs, boxes_by_id, usable_space)

\* the strategy score as it would be if minimize_holes rewarded no adjacency
position_score_NoAdjacency(c, placed_bs, padding, strategy) ==
    100 * c[1] + 10 * c[2] + c[3]

\* engine.py:488-501, times 100 * Unit
position_score(c, placed_bs, padding, strategy) ==
    LET base == 100 * c[1] + 10 * c[2] + c[3]
        adjacency_score ==
            SumSeq([i \in DOMAIN placed_bs |->
                LET placed == placed_bs[i]
                IN   (IF 10 * Abs(c[1] - x_end(placed) - padding) < Unit THEN -10 ELSE 0)
                   + (IF 10 * Abs(c[2] - y_end(placed) - padding) < Unit THEN -10 ELSE 0)
                   + (IF 10 * Abs(c[3] - z_end(placed)) < Unit THEN -5 ELSE 0)])
    IN IF strategy = "maximize_volume" THEN base
       ELSE base + 100 * Unit * adjacency_score

\* the last element of s with the least score, as a sort that is not stable
\* could return
FirstMin_LastOfLeast(s, scores) ==
    s[CHOOSE i \in DOMAIN s :
         /\ \A j \in DOMAIN s : scores[i] <= scores[j]
         /\ \A j \in DOMAIN s : j > i => scores[j] > scores[i]]

\* the first element of a non-empty sequence s with the least score, where
\* scores[i] is the score of s[i]:
\* what a stable sort followed by [0] returns, and what a strict "<"
\* against the best so far keeps
FirstMin(s, scores) ==
    s[CHOOSE i \in DOMAIN s :
         /\ \A j \in DOMAIN s : scores[i] <= scores[j]
         /\ \A j \in DOMAIN s : j < i => scores[j] > scores[i]]

\* engine.py:505-511: the first of the valid positions with the least score
BestPosition(valid_positions, placed_bs, padding, strategy) ==
    IF valid_positions = <<>> THEN None
    ELSE Some(FirstMin(valid_positions,
                 [i \in DOMAIN valid_positions |->
                     position_score(valid_positions[i], placed_bs, padding, strategy)]))

\* engine.py:434-511 for the candidates of engine.py:419-432.  The result is
\* [raised, position]: raised is TRUE when reading bed.corner_radius
\* (engine.py:450) raises AttributeError, which happens as soon as one
\* candidate passes the bounds check; position is None or Some(<<x, y, z>>).
PositionAmong(candidates, box, orientation, placed_bs, boxes_by_id, usable_space, padding, strategy, b, total_margin) ==
    IF /\ b.corner_radius = None
       /\ \E i \in DOMAIN candidates :
              InBounds(candidates[i], orientation[1], orientation[2],
                       orientation[3], usable_space)
    THEN [raised |-> TRUE, position |-> None]
    ELSE [raised |-> FALSE,
          position |->
              BestPosition(
                  Keep(candidates, {i \in DOMAIN candidates :
                      Feasible(box, candidates[i], orientation[1], orientation[2],
                               orientation[3], placed_bs, boxes_by_id,
                               usable_space, padding, b, total_margin)}),
                  placed_bs, padding, strategy)]

find_placement_position(box, orientation, placed_bs, boxes_by_id, usable_space, padding, strategy, b, total_margin) ==
    PositionAmong(candidate_positions(placed_bs, usable_space, padding),
                  box, orientation, placed_bs, boxes_by_id, usable_space,
                  padding, strategy, b, total_margin)

-----------------------------------------------------------------------------
(* engine.py: metrics.  Ratios are returned in units of 0.0001, which is   *)
(* what round(., 4) keeps.  The quotient n / d and the difference 1.0 - q  *)
(* are IEEE doubles (53 significant bits, round to nearest even) and       *)
(* round(., 4) rounds the double it is given, half to even.  Away from a   *)
(* decimal tie x.xxxx5 the result is the nearest multiple of 0.0001 of the *)
(* exact value.  At a tie the exact value is a / 20000 with a odd, and the *)
(* result depends on whether the double lies above or below it, which the  *)
(* binary expansion of a / (32 * 625) decides.                             *)

\* 2^k mod 625
RECURSIVE Pow2Mod625(_)
Pow2Mod625(k) == IF k = 0 THEN 1 ELSE (2 * Pow2Mod625(k - 1)) % 625

\* the k >= 1 with 2^-k <= a / 20000 < 2^-(k-1), for 0 < a < 20000, searched from k
RECURSIVE BinaryExponentFrom(_, _)
BinaryExponentFrom(a, k) ==
    IF a * (2 ^ k) >= 20000 THEN k ELSE BinaryExponentFrom(a, k + 1)

\* 625 times the fractional part of (a / 20000) * 2^(52 + k): what the
\* division leaves behind the 53rd significant bit
QuotientRest(a) ==
    ((a % 625) * Pow2Mod625(47 + BinaryExponentFrom(a, 1))) % 625

\* the position of the double n / d against the exact a / 20000, a odd:
\* 1 above, -1 below, 0 when a / 20000 is a double itself
QuotientSide(a) ==
    IF a % 625 = 0 THEN 0
    ELSE IF 2 * QuotientRest(a) > 625 THEN 1 ELSE -1

\* the position of the double 1.0 - (n / d) against the exact 1 - a / 20000.
\* At or above 0.5 the subtraction is exact.  Below 0.5 the difference is
\* rounded to a multiple of 2^-53: T / D is its distance from the multiple
\* below the exact value, in units of 2^-53.
ComplementSide(a) ==
    IF a % 625 = 0 THEN 0
    ELSE IF a > 10000 THEN 0 - QuotientSide(a)
    ELSE LET k == BinaryExponentFrom(a, 1)
             r == QuotientRest(a)
             f == (((20000 - a) % 625) * Pow2Mod625(48)) % 625
             T == f * (2 ^ (k - 1)) + (IF QuotientSide(a) < 0 THEN r ELSE r - 625)
             D == 625 * (2 ^ (k - 1))
             below_is_odd == 2 * ((((20000 - a) % 625) * Pow2Mod625(47)) % 625) >= 625
         IN IF 2 * T < D THEN -1
            ELSE IF 2 * T > D THEN 1
            ELSE IF below_is_odd THEN 1 ELSE -1

\* round(x, 4) for an exact tie between lo and lo + 1 and a double on the
\* given side of it
RoundTie(lo, side) ==
    IF side > 0 THEN lo + 1
    ELSE IF side < 0 THEN lo
    ELSE lo + (lo % 2)

\* round(n / d, 4) for 0 <= n and 0 < d, in units of 0.0001
round4(n, d) ==
    IF 2 * ((10000 * n) % d) > d THEN ((10000 * n) \div d) + 1
    ELSE IF 2 * ((10000 * n) % d) < d THEN (10000 * n) \div d
    ELSE RoundTie((10000 * n) \div d, QuotientSide(2 * ((10000 * n) \div d) + 1))

\* round(1.0 - n / d, 4) for 0 <= n and 0 < d, in units of 0.0001
round4_complement(n, d) ==
    IF n > d THEN 0 - round4(n - d, d)
    ELSE IF 2 * ((10000 * n) % d) = d
         THEN RoundTie(10000 - ((10000 * n) \div d) - 1,
                       ComplementSide(2 * ((10000 * n) \div d) + 1))
         ELSE round4(d - n, d)

RECURSIVE MinOf(_)
MinOf(s) == IF Len(s) = 1 THEN s[1] ELSE Min(Head(s), MinOf(Tail(s)))

\* the maximum as it would be if only the first placed box were looked at
MaxOf_First(s) == s[1]

RECURSIVE MaxOf(_)
MaxOf(s) == IF Len(s) = 1 THEN s[1] ELSE Max(Head(s), MaxOf(Tail(s)))

_calculate_metrics(bs, placed_bs, usable_length, usable_width, usable_height) ==
    LET volume == usable_length * usable_width * usable_height
        total_bed_volume == IF volume <= 0 THEN 1 ELSE volume
        used_volume ==
            SumSeq([i \in DOMAIN placed_bs |->
                placed_bs[i].placed_length * placed_bs[i].placed_width
                    * placed_bs[i].placed_height])
        \* min(used_volume / total_bed_volume, 1.0) as a fraction of total_bed_volume
        used_part == Min(used_volume, total_bed_volume)
        placed_count == Len(placed_bs)
        bounding_volume ==
              (MaxOf([i \in DOMAIN placed_bs |-> x_end(placed_bs[i])])
                 - MinOf([i \in DOMAIN placed_bs |-> placed_bs[i].placement.x]))
            * (MaxOf([i \in DOMAIN placed_bs |-> y_end(placed_bs[i])])
                 - MinOf([i \in DOMAIN placed_bs |-> placed_bs[i].placement.y]))
            * (MaxOf([i \in DOMAIN placed_bs |-> z_end(placed_bs[i])])
                 - MinOf([i \in DOMAIN placed_bs |-> placed_bs[i].placement.z]))
        fragmentation_score ==
            IF placed_count = 0 THEN 10000
            ELSE IF bounding_volume > 0
                 THEN round4_complement(used_volume, bounding_volume)
                 ELSE 0
    IN [total_boxes |-> Len(bs),
        placed_boxes |-> placed_count,
        used_volume_ratio |-> round4(used_part, total_bed_volume),
        free_volume_ratio |-> round4_complement(used_part, total_bed_volume),
        fragmentation_score |-> fragmentation_score]

-----------------------------------------------------------------------------
(* engine.py: the driver optimize_packing. *)

\* total_margin as it would be without the settings-level margin
total_margin_BedOnly(b, s) == b.margin

total_margin(b, s) == b.margin + s.margin

\* usable_length as it would be with the margin taken off one end only
usable_length_OneSide(b, s) == b.length - total_margin(b, s)

usable_length(b, s) == b.length - (2 * total_margin(b, s))

usable_width(b, s) == b.width - (2 * total_margin(b, s))

\* usable_height as it would be with the margin taken off the height too
usable_height_LessMargin(b, s) == b.height - (2 * total_margin(b, s))

usable_height(b, s) == b.height

\* engine.py:542
Degenerate(b, s) ==
    usable_length(b, s) <= 0 \/ usable_width(b, s) <= 0 \/ usable_height(b, s) <= 0

\* the FreeSpace of engine.py:547-554
usable_space(b, s) ==
    [x |-> total_margin(b, s), y |-> total_margin(b, s), z |-> 0,
     length |-> usable_length(b, s), width |-> usable_width(b, s),
     height |-> usable_height(b, s)]

\* the orientations that are not skipped at engine.py:573
NotSkipped(orientations, b, s) ==
    Keep(orientations, {i \in DOMAIN orientations :
        ~ (\/ orientations[i][1] > usable_length(b, s)
           \/ orientations[i][2] > usable_width(b, s)
           \/ orientations[i][3] > usable_height(b, s))})

tried_orientations(box, b, s) == NotSkipped(get_box_orientations(box), b, s)

\* the score of engine.py:586 as it would be without the height term
outer_score_NoHeight(x, y, z) == 10 * x + y

\* engine.py:586, times 10 * Unit
outer_score(x, y, z) == 10000 * z + 10 * x + y

\* engine.py:583-589: the first of the positions found with the least
\* score; a position found is <<x, y, z, orientation, length, width, height>>
LowestOf(placed_at) ==
    IF placed_at = <<>> THEN None
    ELSE Some(FirstMin(placed_at,
                 [i \in DOMAIN placed_at |->
                     outer_score(placed_at[i][1], placed_at[i][2], placed_at[i][3])]))

\* engine.py:583-589: the tuples (x, y, z, orientation, length, width, height)
\* of the pairs <<orientation, Some(position)>> found
FoundAt(found) ==
    [i \in DOMAIN found |->
        <<found[i][2][1][1], found[i][2][1][2], found[i][2][1][3],
          found[i][1][4], found[i][1][1], found[i][1][2], found[i][1][3]>>]

\* engine.py:583-589 for the results of find_placement_position in the
\* tried orientations
BestOf(tried, results) ==
    IF \E i \in DOMAIN results : results[i].raised
    THEN [raised |-> TRUE, best_placement |-> None]
    ELSE [raised |-> FALSE,
          best_placement |->
              LowestOf(FoundAt(
                  Keep([i \in DOMAIN tried |-> <<tried[i], results[i].position>>],
                       {i \in DOMAIN tried : results[i].position # None})))]

\* engine.py:571-589 for the orientations that are not skipped
BestAmong(tried, box, placed_bs, bs, b, s) ==
    BestOf(tried,
           [i \in DOMAIN tried |->
               find_placement_position(box, tried[i], placed_bs, BoxesById(bs),
                   usable_space(b, s), s.padding, s.strategy, b,
                   total_margin(b, s))])

\* One pass of the loop body engine.py:567-589 for one box.  The result is
\* [raised, best_placement]; best_placement is None or
\* Some(<<x, y, z, orientation, length, width, height>>).
best_placement(box, placed_bs, bs, b, s) ==
    BestAmong(tried_orientations(box, b, s), box, placed_bs, bs, b, s)

\* engine.py:593-607
Placement(box, t) ==
    [box_id |-> box.id, x |-> t[1], y |-> t[2], z |-> t[3], orientation |-> t[4]]

PlacedBox(box, t) ==
    [box |-> box, placement |-> Placement(box, t),
     placed_length |-> t[5], placed_width |-> t[6], placed_height |-> t[7]]

-----------------------------------------------------------------------------
(* The requests the model runs the engine on. *)

Fragilities == {"robust", "normal", "fragile"}

AccessFrequencies == {"rare", "sometimes", "often"}

Priorities == {"must_fit", "optional"}

Strategies == {"maximize_volume", "minimize_holes"}

\* a box as the caller writes it, before Box() fills in the default load
BoxInput(l, w, h, kg, fragility, access_frequency, priority, rot, load) ==
    [length |-> l, width |-> w, height |-> h, weight |-> kg,
     fragility |-> fragility, access_frequency |-> access_frequency,
     priority |-> priority,
     can_rotate_x |-> rot[1], can_rotate_y |-> rot[2], can_rotate_z |-> rot[3],
     max_supported_load |-> load]

AnyRotation == <<TRUE, TRUE, TRUE>>

NoRotation == <<FALSE, FALSE, FALSE>>

\* The kinds of box a request is made of: two thin slabs (1/Unit cm high,
\* below the engine's 0.1 cm tolerances), a slab twice as thick and two
\* large flat boxes, in the weights, fragilities and load limits that
\* exercise the support, load and fragility rules and the ordering heuristic.
BoxKinds ==
    { BoxInput(Unit, Unit, 1, 16, "robust", "rare", "must_fit", AnyRotation, Some(200)),
      BoxInput(Unit, Unit, 1, 3, "fragile", "often", "optional", AnyRotation, None),
      BoxInput(Unit, Unit, 2, 3, "normal", "rare", "optional", NoRotation, None),
      BoxInput(2 * Unit, 2 * Unit, Unit, 4, "normal", "rare", "must_fit", AnyRotation, Some(5)),
      BoxInput(2 * Unit, 2 * Unit, Unit, 100, "robust", "rare", "optional", AnyRotation, None) }

\* The rotation flags of a box, (can_rotate_x, can_rotate_y, can_rotate_z),
\* in all eight combinations
RotationFlags == {<<x, y, z>> : x, y, z \in BOOLEAN}

\* Boxes with pairwise distinct dimensions, too high for the lower beds as
\* given and low enough when turned, one for each combination of flags
TurnableKinds ==
    { BoxInput(Unit, Unit \div 2, Unit + 4, 3, "normal", "rare", "optional", rot, None) :
          rot \in RotationFlags }

\* a cube that may be turned every way
CubeKind ==
    BoxInput(Unit \div 2, Unit \div 2, Unit \div 2, 3, "normal", "rare", "optional",
             AnyRotation, None)

\* the longest request made of such boxes
MaxTurnable == 2

TurnableLists ==
    UNION { [1..n -> TurnableKinds \cup {CubeKind}] : n \in 1..MaxTurnable }

\* Slabs that differ from the first of them in one attribute only: the
\* weight of the second, the fragility of the third
AlikeKinds ==
    { BoxInput(Unit, Unit, 2, 3, "normal", "rare", "optional", AnyRotation, Some(20)),
      BoxInput(Unit, Unit, 2, 5, "normal", "rare", "optional", AnyRotation, Some(20)),
      BoxInput(Unit, Unit, 2, 3, "robust", "rare", "optional", AnyRotation, Some(20)) }

\* the longest request made of such slabs
MaxAlike == 3

AlikeLists ==
    UNION { [1..n -> AlikeKinds] : n \in 2..MaxAlike }

\* A box that is ten times as wide as it is long and turns about the
\* vertical axis only: once it stands at the origin, the position behind it
\* (x = length) and the position beside it (y = width = 10 * length) have
\* the same score x + y * 0.1 + z * 0.01, in either orientation of the next
TieKind ==
    BoxInput(1, 10, Unit + 4, 3, "normal", "rare", "optional",
             <<FALSE, FALSE, TRUE>>, None)

\* the request of two such boxes
TieLists == {<<TieKind, TieKind>>}

\* requests of at most MaxBoxes boxes; the box at position i has id i
BoxLists ==
    UNION { [1..n -> BoxKinds] : n \in 0..MaxBoxes }

WithIds(kinds) ==
    [i \in DOMAIN kinds |->
        Box([id |-> i] @@ kinds[i])]

\* beds that carry a corner_radius attribute, with square corners
BedsSquare ==
    [length : {3 * Unit},
     width : {2 * Unit},
     height : {Unit + 1, 2 * Unit + 4},
     margin : {0, Unit \div 2},
     corner_radius : {Some(0)}]

\* beds that carry a corner_radius attribute, with rounded corners
BedsRounded ==
    [length : {3 * Unit},
     width : {2 * Unit},
     height : {Unit + 1},
     margin : {0},
     corner_radius : {Some(Unit \div 2)}]

\* beds built by the dataclass of models.py:38-44, which has no corner_radius
BedsAsDeclared ==
    [length : {3 * Unit},
     width : {2 * Unit},
     height : {Unit + 1},
     margin : {0},
     corner_radius : {None}]

Beds == BedsSquare \cup BedsRounded \cup BedsAsDeclared

\* settings without a settings-level margin, in both strategies and paddings
SettingsNoMargin ==
    [strategy : Strategies,
     accessibility_preference : {2},
     padding : {0, Unit \div 8},
     margin : {0}]

\* settings that add a settings-level margin
SettingsWithMargin ==
    [strategy : {"maximize_volume"},
     accessibility_preference : {2},
     padding : {0},
     margin : {Unit \div 2}]

SettingsSet == SettingsNoMargin \cup SettingsWithMargin

-----------------------------------------------------------------------------
(* The state machine: one call of optimize_packing(bed, boxes, settings). *)

Init ==
    /\ \/ /\ bed \in Beds
          /\ \E kinds \in BoxLists : boxes = WithIds(kinds)
          /\ settings \in SettingsSet
       \/ /\ bed \in {b \in BedsSquare : b.margin = 0}
          /\ \E kinds \in TurnableLists \cup AlikeLists \cup TieLists : boxes = WithIds(kinds)
          /\ settings \in {s \in SettingsNoMargin : s.padding = 0}
    /\ pc = "start"
    /\ sorted_boxes = <<>>
    /\ idx = 1
    /\ placed_boxes = <<>>
    /\ placements = <<>>
    /\ unplaced_box_ids = <<>>
    /\ metrics = None

\* the early return as it would be if it reported no box as unplaced
ReturnDegenerate_NoneReported ==
    /\ pc = "start"
    /\ Degenerate(bed, settings)
    /\ unplaced_box_ids' = <<>>
    /\ metrics' = Some(_calculate_metrics(boxes, <<>>, usable_length(bed, settings),
                       usable_width(bed, settings), usable_height(bed, settings)))
    /\ pc' = "done"
    /\ UNCHANGED <<bed, boxes, settings, sorted_boxes, idx, placed_boxes, placements>>

\* engine.py:542-545: no usable space, every box is reported unplaced
ReturnDegenerate ==
    /\ pc = "start"
    /\ Degenerate(bed, settings)
    /\ unplaced_box_ids' = [i \in DOMAIN boxes |-> boxes[i].id]
    /\ metrics' = Some(_calculate_metrics(boxes, <<>>, usable_length(bed, settings),
                       usable_width(bed, settings), usable_height(bed, settings)))
    /\ pc' = "done"
    /\ UNCHANGED <<bed, boxes, settings, sorted_boxes, idx, placed_boxes, placements>>

\* engine.py:547-563
SortBoxes ==
    /\ pc = "start"
    /\ ~ Degenerate(bed, settings)
    /\ sorted_boxes' = sorted(boxes, settings.accessibility_preference)
    /\ idx' = 1
    /\ pc' = "loop"
    /\ UNCHANGED <<bed, boxes, settings, placed_boxes, placements,
                   unplaced_box_ids, metrics>>

\* a loop iteration that commits a placement as it would be if, among the
\* positions found that share the least score, any one could be kept
PlaceBox_AnyOfLowest ==
    /\ pc = "loop"
    /\ idx <= Len(sorted_boxes)
    /\ \E r \in {best_placement(sorted_boxes[idx], placed_boxes, boxes, bed, settings)} :
          /\ ~ r.raised
          /\ r.best_placement # None
          /\ \E o \in {tried_orientations(sorted_boxes[idx], bed, settings)[k] :
                         k \in DOMAIN tried_orientations(sorted_boxes[idx], bed, settings)} :
                \E found \in {find_placement_position(sorted_boxes[idx], o, placed_boxes,
                                   BoxesById(boxes), usable_space(bed, settings),
                                   settings.padding, settings.strategy, bed,
                                   total_margin(bed, settings)).position} :
                    /\ found # None
                    /\ outer_score(found[1][1], found[1][2], found[1][3])
                           = outer_score(r.best_placement[1][1], r.best_placement[1][2],
                                         r.best_placement[1][3])
                    /\ placements' = Append(placements,
                           Placement(sorted_boxes[idx],
                               <<found[1][1], found[1][2], found[1][3], o[4],
                                 o[1], o[2], o[3]>>))
                    /\ placed_boxes' = Append(placed_boxes,
                           PlacedBox(sorted_boxes[idx],
                               <<found[1][1], found[1][2], found[1][3], o[4],
                                 o[1], o[2], o[3]>>))
    /\ idx' = idx + 1
    /\ UNCHANGED <<bed, boxes, settings, pc, sorted_boxes, unplaced_box_ids, metrics>>

\* engine.py:566-607: a loop iteration that commits a placement
PlaceBox ==
    /\ pc = "loop"
    /\ idx <= Len(sorted_boxes)
    /\ \E r \in {best_placement(sorted_boxes[idx], placed_boxes, boxes, bed, settings)} :
          /\ ~ r.raised
          /\ r.best_placement # None
          /\ placements' = Append(placements,
                               Placement(sorted_boxes[idx], r.best_placement[1]))
          /\ placed_boxes' = Append(placed_boxes,
                                 PlacedBox(sorted_boxes[idx], r.best_placement[1]))
    /\ idx' = idx + 1
    /\ UNCHANGED <<bed, boxes, settings, pc, sorted_boxes, unplaced_box_ids, metrics>>

\* a loop iteration that finds no placement as it would be without the
\* else branch of engine.py:608-609
SkipBox_NotRecorded ==
    /\ pc = "loop"
    /\ idx <= Len(sorted_boxes)
    /\ \E r \in {best_placement(sorted_boxes[idx], placed_boxes, boxes, bed, settings)} :
          /\ ~ r.raised
          /\ r.best_placement = None
    /\ idx' = idx + 1
    /\ UNCHANGED <<bed, boxes, settings, pc, sorted_boxes, placed_boxes,
                   placements, unplaced_box_ids, metrics>>

\* a loop iteration that finds no placement as it would be if the loop
\* ended at the first box that cannot be placed
SkipBox_EndsLoop ==
    /\ pc = "loop"
    /\ idx <= Len(sorted_boxes)
    /\ \E r \in {best_placement(sorted_boxes[idx], placed_boxes, boxes, bed, settings)} :
          /\ ~ r.raised
          /\ r.best_placement = None
    /\ unplaced_box_ids' = Append(unplaced_box_ids, sorted_boxes[idx].id)
    /\ idx' = Len(sorted_boxes) + 1
    /\ UNCHANGED <<bed, boxes, settings, pc, sorted_boxes, placed_boxes,
                   placements, metrics>>

\* a loop iteration that finds no placement as it would be if the list of
\* unplaced ids were started afresh
SkipBox_ForgetsEarlier ==
    /\ pc = "loop"
    /\ idx <= Len(sorted_boxes)
    /\ \E r \in {best_placement(sorted_boxes[idx], placed_boxes, boxes, bed, settings)} :
          /\ ~ r.raised
          /\ r.best_placement = None
    /\ unplaced_box_ids' = <<sorted_boxes[idx].id>>
    /\ idx' = idx + 1
    /\ UNCHANGED <<bed, boxes, settings, pc, sorted_boxes, placed_boxes,
                   placements, metrics>>

\* engine.py:566-589, 608-609: a loop iteration that finds no placement
SkipBox ==
    /\ pc = "loop"
    /\ idx <= Len(sorted_boxes)
    /\ \E r \in {best_placement(sorted_boxes[idx], placed_boxes, boxes, bed, settings)} :
          /\ ~ r.raised
          /\ r.best_placement = None
    /\ unplaced_box_ids' = Append(unplaced_box_ids, sorted_boxes[idx].id)
    /\ idx' = idx + 1
    /\ UNCHANGED <<bed, boxes, settings, pc, sorted_boxes, placed_boxes,
                   placements, metrics>>

\* engine.py:447-450: reading bed.corner_radius raises AttributeError and
\* the call ends without a result
RaiseAttributeError ==
    /\ pc = "loop"
    /\ idx <= Len(sorted_boxes)
    /\ bed.corner_radius = None
    /\ best_placement(sorted_boxes[idx], placed_boxes, boxes, bed, settings).raised
    /\ pc' = "raised"
    /\ UNCHANGED <<bed, boxes, settings, sorted_boxes, idx, placed_boxes,
                   placements, unplaced_box_ids, metrics>>

\* engine.py:611-615
ReturnResult ==
    /\ pc = "loop"
    /\ idx > Len(sorted_boxes)
    /\ metrics' = Some(_calculate_metrics(boxes, placed_boxes,
                       usable_length(bed, settings), usable_width(bed, settings),
                       usable_height(bed, settings)))
    /\ pc' = "done"
    /\ UNCHANGED <<bed, boxes, settings, sorted_boxes, idx, placed_boxes,
                   placements, unplaced_box_ids>>

Next ==
    \/ ReturnDegenerate
    \/ SortBoxes
    \/ PlaceBox
    \/ SkipBox
    \/ RaiseAttributeError
    \/ ReturnResult

Spec == Init /\ [][Next]_vars

-----------------------------------------------------------------------------
(* The properties.  They are stated on the state of the run alone:         *)
(* placed_boxes lists the committed placements in the order of commitment, *)
(* so the boxes placed before placed_boxes[i] are placed_boxes[1..i-1].    *)

\* the total margin t = bed.margin + settings.margin of the request
Margin_t == bed.margin + settings.margin

\* the padding p of the request
Padding_p == settings.padding

Committed == DOMAIN placed_boxes

PlacedBefore(i) == SubSeq(placed_boxes, 1, i - 1)

\* A and B are apart by the padding on the x, the y or the z axis
Apart(A, B) ==
    \/ A.placement.x + A.placed_length + Padding_p <= B.placement.x
    \/ B.placement.x + B.placed_length + Padding_p <= A.placement.x
    \/ A.placement.y + A.placed_width + Padding_p <= B.placement.y
    \/ B.placement.y + B.placed_width + Padding_p <= A.placement.y
    \/ A.placement.z + A.placed_height + Padding_p <= B.placement.z
    \/ B.placement.z + B.placed_height + Padding_p <= A.placement.z

\* the footprints of A and B intersect in a positive area
FootprintsOverlap(A, B) ==
    /\ A.placement.x < B.placement.x + B.placed_length
    /\ B.placement.x < A.placement.x + A.placed_length
    /\ A.placement.y < B.placement.y + B.placed_width
    /\ B.placement.y < A.placement.y + A.placed_width

\* C1: any two distinct committed placements are apart by at least the
\* padding on one of the three axes; in particular a box whose footprint
\* overlaps a lower box starts at least the padding above that box's top.
C1_NoOverlapWithPadding ==
    \A i, j \in Committed :
        i # j =>
            /\ Apart(placed_boxes[i], placed_boxes[j])
            /\ (/\ FootprintsOverlap(placed_boxes[i], placed_boxes[j])
                /\ placed_boxes[i].placement.z > placed_boxes[j].placement.z)
                   => placed_boxes[i].placement.z
                          >= placed_boxes[j].placement.z
                               + placed_boxes[j].placed_height + Padding_p

\* C1 witness: with a positive padding, a box has been committed on top of
\* another one and a third box beside them
C1_Witness ==
    /\ Padding_p > 0
    /\ \E i, j, k \in Committed :
          /\ i # j /\ j # k /\ i # k
          /\ FootprintsOverlap(placed_boxes[i], placed_boxes[j])
          /\ placed_boxes[i].placement.z > placed_boxes[j].placement.z
          /\ ~ FootprintsOverlap(placed_boxes[k], placed_boxes[j])

\* C2: every committed placement lies inside the usable region, the bed
\* shrunk by t on its four lateral sides with the full height.
C2_InsideUsableRegion ==
    \A i \in Committed :
        LET pb == placed_boxes[i]
        IN /\ Margin_t <= pb.placement.x
           /\ pb.placement.x + pb.placed_length <= bed.length - Margin_t
           /\ Margin_t <= pb.placement.y
           /\ pb.placement.y + pb.placed_width <= bed.width - Margin_t
           /\ 0 <= pb.placement.z
           /\ pb.placement.z + pb.placed_height <= bed.height

\* C2 witness: the bed has no margin of its own, the settings add one, and a
\* committed box reaches the far end of the usable region
C2_Witness ==
    /\ bed.margin = 0 /\ settings.margin > 0
    /\ \E i \in Committed :
          placed_boxes[i].placement.x + placed_boxes[i].placed_length
              = bed.length - Margin_t

\* C3 as stated: the returned coordinates satisfy
\* 0 <= x, y, z, x + Lp <= L - 2t, y + Wp <= W - 2t, z + Hp <= H.
C3_Original ==
    pc = "done" =>
        \A i \in DOMAIN placements :
            LET pl == placements[i]
                pb == placed_boxes[i]
            IN /\ 0 <= pl.x /\ 0 <= pl.y /\ 0 <= pl.z
               /\ pl.x + pb.placed_length <= bed.length - 2 * Margin_t
               /\ pl.y + pb.placed_width <= bed.width - 2 * Margin_t
               /\ pl.z + pb.placed_height <= bed.height

\* C3 amended: the returned x and y include the offset t of the usable
\* region, so the upper bounds hold for x - t and y - t:
\* 0 <= x, y, z, (x - t) + Lp <= L - 2t, (y - t) + Wp <= W - 2t, z + Hp <= H.
C3_ReturnedCoordinates ==
    pc = "done" =>
        \A i \in DOMAIN placements :
            LET pl == placements[i]
                pb == placed_boxes[i]
            IN /\ 0 <= pl.x /\ 0 <= pl.y /\ 0 <= pl.z
               /\ (pl.x - Margin_t) + pb.placed_length <= bed.length - 2 * Margin_t
               /\ (pl.y - Margin_t) + pb.placed_width <= bed.width - 2 * Margin_t
               /\ pl.z + pb.placed_height <= bed.height

\* C3 witness: a result with a positive margin whose placement ends beyond
\* L - 2t on the x axis
C3_Witness ==
    /\ pc = "done"
    /\ Margin_t > 0
    /\ \E i \in DOMAIN placements :
          placements[i].x + placed_boxes[i].placed_length > bed.length - 2 * Margin_t

\* the support ratio <<numerator, denominator>> that placed_boxes[i] had
\* against the boxes placed before it
SupportRatioAtCommit(i) ==
    LET pb == placed_boxes[i]
    IN get_support_at_position(pb.placement.x, pb.placement.y, pb.placement.z,
                               pb.placed_length, pb.placed_width,
                               PlacedBefore(i), 0, Padding_p).support_ratio

\* C4: every committed placement with z > 0 had a support ratio of at least
\* 0.5 against the boxes placed before it, however small that z is.
C4_SupportAtCommit ==
    \A i \in Committed :
        placed_boxes[i].placement.z > 0
            => \A ratio \in {SupportRatioAtCommit(i)} : 2 * ratio[1] >= ratio[2]

\* placed_boxes[j] rests directly on placed_boxes[i]: its base is at the
\* top of i plus the padding (within 0.1 cm) and the footprints overlap
RestsOn(j, i) ==
    /\ i # j
    /\ 10 * Abs(placed_boxes[j].placement.z
                  - (placed_boxes[i].placement.z + placed_boxes[i].placed_height)
                  - Padding_p) <= Unit
    /\ FootprintsOverlap(placed_boxes[j], placed_boxes[i])

\* the total weight of the placed boxes resting directly on placed_boxes[i]
WeightOn(i) ==
    SumSeq([j \in Committed |->
               IF RestsOn(j, i) THEN placed_boxes[j].box.weight ELSE 0])

\* C5: for every placed box s, the total weight of the placed boxes resting
\* directly on s does not exceed s.max_supported_load, for any padding.
C5_LoadWithinLimit ==
    \A i \in Committed :
        placed_boxes[i].box.max_supported_load # None
            => WeightOn(i) <= placed_boxes[i].box.max_supported_load[1]

\* C6: in every result, no box over 5 kg rests directly on a fragile box
\* and no box over 15 kg rests directly on a normal box.
C6_FragilityInResult ==
    pc = "done" =>
        \A i, j \in Committed :
            RestsOn(j, i) =>
                /\ ~ (/\ placed_boxes[i].box.fragility = "fragile"
                      /\ placed_boxes[j].box.weight > 5)
                /\ ~ (/\ placed_boxes[i].box.fragility = "normal"
                      /\ placed_boxes[j].box.weight > 15)

\* the IDs of the returned placements followed by the returned unplaced IDs
ReturnedIds ==
    [i \in DOMAIN placements |-> placements[i].box_id] \o unplaced_box_ids

\* C7: in every result, the IDs of the placements together with
\* unplaced_box_ids are exactly the input IDs, each of them once.
C7_IdsPartition ==
    pc = "done" =>
        /\ Len(ReturnedIds) = Len(boxes)
        /\ \A k \in DOMAIN boxes :
              Cardinality({n \in DOMAIN ReturnedIds : ReturnedIds[n] = boxes[k].id}) = 1
        /\ \A n \in DOMAIN ReturnedIds :
              \E k \in DOMAIN boxes : ReturnedIds[n] = boxes[k].id

\* C7 witness: a result of a request of three boxes that has placements and
\* unplaced IDs
C7_Witness ==
    /\ pc = "done"
    /\ Len(boxes) = 3
    /\ placements # <<>>
    /\ unplaced_box_ids # <<>>

\* C8: in the order in which the boxes are attempted, every must_fit box
\* comes before every optional box.
C8_MustFitFirst ==
    \A i, j \in DOMAIN sorted_boxes :
        (/\ sorted_boxes[i].priority = "optional"
         /\ sorted_boxes[j].priority = "must_fit") => j < i

\* C9: in every result, if a must_fit box is unplaced then no optional box
\* lies on the floor at the origin of the usable region with a footprint in
\* which that must_fit box, in one of its allowed orientations, would fit.
C9_MustFitDominance ==
    pc = "done" =>
        \A k \in DOMAIN boxes :
            (/\ boxes[k].priority = "must_fit"
             /\ \E n \in DOMAIN unplaced_box_ids : unplaced_box_ids[n] = boxes[k].id)
            => ~ \E i \in Committed :
                   LET pb == placed_boxes[i]
                       orientations == get_box_orientations(boxes[k])
                   IN /\ pb.box.priority = "optional"
                      /\ pb.placement.x = Margin_t
                      /\ pb.placement.y = Margin_t
                      /\ pb.placement.z = 0
                      /\ \E o \in DOMAIN orientations :
                            /\ orientations[o][1] <= pb.placed_length
                            /\ orientations[o][2] <= pb.placed_width
                            /\ orientations[o][3] <= bed.height

\* z * 1000 + x + 0.1 * y, times 10 * Unit
LowestFirstScore(x, y, z) == 10000 * z + 10 * x + y

\* the candidate positions that were feasible for placed_boxes[i] in the
\* orientation o when it was committed
FeasibleAtCommit(i, o) ==
    LET before == PlacedBefore(i)
        cands == candidate_positions(before, usable_space(bed, settings), Padding_p)
    IN {cands[c] : c \in
           {c \in DOMAIN cands :
               Feasible(placed_boxes[i].box, cands[c], o[1], o[2], o[3], before,
                        BoxesById(boxes), usable_space(bed, settings), Padding_p,
                        bed, Margin_t)}}

\* the orientations tried for placed_boxes[i]
TriedAtCommit(i) ==
    LET tried == tried_orientations(placed_boxes[i].box, bed, settings)
    IN {tried[k] : k \in DOMAIN tried}

\* C10 as stated: the committed (orientation, position) minimizes
\* z * 1000 + x + 0.1 * y over all feasible (orientation, candidate position)
\* pairs, so no box is committed above the floor while one of its floor
\* candidates is feasible.
C10_Original ==
    \A i \in Committed :
        LET pl == placed_boxes[i].placement
        IN \A o \in TriedAtCommit(i) :
              \A c \in FeasibleAtCommit(i, o) :
                  /\ LowestFirstScore(pl.x, pl.y, pl.z) <= LowestFirstScore(c[1], c[2], c[3])
                  /\ pl.z > 0 => c[3] > 0

\* the position find_placement_position returned for placed_boxes[i] in the
\* orientation o when it was committed: None or Some(<<x, y, z>>)
WinnerAtCommit(i, o) ==
    find_placement_position(placed_boxes[i].box, o, PlacedBefore(i),
        BoxesById(boxes), usable_space(bed, settings), Padding_p,
        settings.strategy, bed, Margin_t).position

\* C10 amended: each orientation contributes the one position that the
\* strategy score ranks first among its feasible candidates, and the
\* committed (orientation, position) minimizes z * 1000 + x + 0.1 * y over
\* these per-orientation positions only.  Stated on every step that commits
\* a box, for the positions found in the orientations tried on that step.
C10_LowestOfOrientationWinners ==
    [][(pc = "loop" /\ Len(placed_boxes') = Len(placed_boxes) + 1) =>
          \A tried \in {tried_orientations(sorted_boxes[idx], bed, settings)} :
            \A winners \in {[o \in DOMAIN tried |->
                                find_placement_position(sorted_boxes[idx], tried[o],
                                    placed_boxes, BoxesById(boxes),
                                    usable_space(bed, settings), Padding_p,
                                    settings.strategy, bed, Margin_t).position]} :
              \A pb \in {placed_boxes'[Len(placed_boxes')]} :
                /\ \E o \in DOMAIN winners :
                      /\ <<tried[o][1], tried[o][2], tried[o][3]>>
                             = <<pb.placed_length, pb.placed_width, pb.placed_height>>
                      /\ tried[o][4] = pb.placement.orientation
                      /\ winners[o] = Some(<<pb.placement.x, pb.placement.y, pb.placement.z>>)
                /\ \A o \in DOMAIN winners :
                      winners[o] # None =>
                          LowestFirstScore(pb.placement.x, pb.placement.y, pb.placement.z)
                              <= LowestFirstScore(winners[o][1][1], winners[o][1][2],
                                                  winners[o][1][3])]_vars

\* C10 witness: a box has been committed above the floor although one of
\* its floor candidates was feasible, and two of its orientations had
\* positions at different heights
C10_Witness ==
    \E i \in Committed :
        /\ placed_boxes[i].placement.z > 0
        /\ \E o \in TriedAtCommit(i) : \E c \in FeasibleAtCommit(i, o) : c[3] = 0
        /\ \E w1, w2 \in {WinnerAtCommit(i, o) : o \in TriedAtCommit(i)} :
              w1 # None /\ w2 # None /\ w1[1][3] # w2[1][3]

\* the corner radius r of a bed that has one
Radius_r == bed.corner_radius[1]

\* the eight sampled points of the footprint of pb, in half grid steps
SampledPoints(pb) ==
    LET x0 == 2 * pb.placement.x
        y0 == 2 * pb.placement.y
        x1 == 2 * (pb.placement.x + pb.placed_length)
        y1 == 2 * (pb.placement.y + pb.placed_width)
        xm == 2 * pb.placement.x + pb.placed_length
        ym == 2 * pb.placement.y + pb.placed_width
    IN { <<x0, y0>>, <<x1, y0>>, <<x0, y1>>, <<x1, y1>>,
         <<xm, y0>>, <<xm, y1>>, <<x0, ym>>, <<x1, ym>> }

\* the point q (in half grid steps) lies in a corner exclusion zone: in the
\* outer square of one of the four arc centres, farther than r from it
InExclusionZone(q) ==
    LET lo_x == 2 * (Margin_t + Radius_r)
        hi_x == 2 * (bed.length - Margin_t - Radius_r)
        lo_y == 2 * (Margin_t + Radius_r)
        hi_y == 2 * (bed.width - Margin_t - Radius_r)
        Far(cx, cy) ==
            (q[1] - cx) * (q[1] - cx) + (q[2] - cy) * (q[2] - cy)
                > 4 * Radius_r * Radius_r
    IN \/ q[1] < lo_x /\ q[2] < lo_y /\ Far(lo_x, lo_y)
       \/ q[1] > hi_x /\ q[2] < lo_y /\ Far(hi_x, lo_y)
       \/ q[1] < lo_x /\ q[2] > hi_y /\ Far(lo_x, hi_y)
       \/ q[1] > hi_x /\ q[2] > hi_y /\ Far(hi_x, hi_y)

\* C11: with a corner radius r > 0 no sampled footprint point of a committed
\* placement lies in a corner exclusion zone; with r = 0 the corner test
\* rejects no candidate of the box being attempted.
C11_CornerExclusion ==
    bed.corner_radius # None =>
        /\ Radius_r > 0 =>
               \A i \in Committed :
                   \A q \in SampledPoints(placed_boxes[i]) : ~ InExclusionZone(q)
        /\ (Radius_r = 0 /\ pc = "loop" /\ idx <= Len(sorted_boxes)) =>
               \A tried \in {tried_orientations(sorted_boxes[idx], bed, settings)} :
                   \A cands \in {candidate_positions(placed_boxes,
                                     usable_space(bed, settings), Padding_p)} :
                       \A k \in DOMAIN tried :
                           \A c \in DOMAIN cands :
                               ~ box_intersects_corner(cands[c][1], cands[c][2],
                                     tried[k][1], tried[k][2], bed.length,
                                     bed.width, Radius_r, Margin_t)

\* C11 witness: with r > 0 the run has ended and a box that fits the usable
\* region at its origin has been rejected by the corner test
C11_Witness ==
    /\ pc = "done"
    /\ bed.corner_radius # None
    /\ Radius_r > 0
    /\ \E k \in DOMAIN boxes :
          /\ \E n \in DOMAIN unplaced_box_ids : unplaced_box_ids[n] = boxes[k].id
          /\ boxes[k].length <= usable_length(bed, settings)
          /\ boxes[k].width <= usable_width(bed, settings)
          /\ boxes[k].height <= usable_height(bed, settings)

\* the state after the loop iteration whose search returned r
AfterIteration(r) ==
    IF r.raised
    THEN <<bed, boxes, settings, "raised", sorted_boxes, idx, placed_boxes,
           placements, unplaced_box_ids, metrics>>
    ELSE IF r.best_placement = None
    THEN <<bed, boxes, settings, pc, sorted_boxes, idx + 1, placed_boxes,
           placements, Append(unplaced_box_ids, sorted_boxes[idx].id), metrics>>
    ELSE <<bed, boxes, settings, pc, sorted_boxes, idx + 1,
           Append(placed_boxes, PlacedBox(sorted_boxes[idx], r.best_placement[1])),
           Append(placements, Placement(sorted_boxes[idx], r.best_placement[1])),
           unplaced_box_ids, metrics>>

\* the state that follows the current one, as a function of the current
\* state alone: the inputs bed, boxes and settings and what the run has
\* built from them so far
OnlySuccessor ==
    IF pc = "start"
    THEN IF Degenerate(bed, settings)
         THEN <<bed, boxes, settings, "done", sorted_boxes, idx, placed_boxes,
                placements, [i \in DOMAIN boxes |-> boxes[i].id],
                Some(_calculate_metrics(boxes, <<>>, usable_length(bed, settings),
                     usable_width(bed, settings), usable_height(bed, settings)))>>
         ELSE <<bed, boxes, settings, "loop",
                sorted(boxes, settings.accessibility_preference), 1, placed_boxes,
                placements, unplaced_box_ids, metrics>>
    ELSE IF idx > Len(sorted_boxes)
    THEN <<bed, boxes, settings, "done", sorted_boxes, idx, placed_boxes,
           placements, unplaced_box_ids,
           Some(_calculate_metrics(boxes, placed_boxes, usable_length(bed, settings),
                usable_width(bed, settings), usable_height(bed, settings)))>>
    ELSE AfterIteration(best_placement(sorted_boxes[idx], placed_boxes, boxes, bed, settings))

C13_NeverRaises ==
    pc # "raised"

\* the summed volume of the placed boxes and the volume of the axis-aligned
\* bounding box of the placements, in grid steps cubed
PlacedVolume ==
    SumSeq([i \in DOMAIN placed_boxes |->
        placed_boxes[i].placed_length * placed_boxes[i].placed_width
            * placed_boxes[i].placed_height])

Highest(S) == CHOOSE h \in S : \A o \in S : o <= h

Lowest(S) == CHOOSE l \in S : \A o \in S : l <= o

BoundingVolume ==
      (Highest({x_end(placed_boxes[i]) : i \in Committed})
         - Lowest({placed_boxes[i].placement.x : i \in Committed}))
    * (Highest({y_end(placed_boxes[i]) : i \in Committed})
         - Lowest({placed_boxes[i].placement.y : i \in Committed}))
    * (Highest({z_end(placed_boxes[i]) : i \in Committed})
         - Lowest({placed_boxes[i].placement.z : i \in Committed}))

\* C14: in every result used_volume_ratio is in [0, 1], free_volume_ratio
\* is 1 - used_volume_ratio up to the rounding to four decimals,
\* fragmentation_score is in [0, 1], and the summed volume of the placed
\* boxes does not exceed the volume of the bounding box of the placements.
C14_MetricRanges ==
    metrics # None =>
        /\ metrics[1].used_volume_ratio \in 0..10000
        /\ Abs(metrics[1].free_volume_ratio - (10000 - metrics[1].used_volume_ratio)) <= 1
        /\ metrics[1].fragmentation_score \in 0..10000
        /\ placements # <<>> => PlacedVolume <= BoundingVolume

\* C14 witness: a result with several placements whose boxes fill neither
\* the usable region nor their bounding box
C14_Witness ==
    /\ metrics # None
    /\ Len(placements) >= 2
    /\ metrics[1].used_volume_ratio \in 1..9999
    /\ metrics[1].fragmentation_score \in 1..9999
    /\ PlacedVolume < BoundingVolume

\* the usable-region volume (L - 2t) * (W - 2t) * H
UsableVolume ==
    (bed.length - 2 * Margin_t) * (bed.width - 2 * Margin_t) * bed.height

\* C15: the metrics are computed from the final state.  total_boxes is the
\* number of input boxes, placed_boxes the number of committed placements,
\* so placed_boxes + |unplaced_box_ids| = total_boxes, and
\* used_volume_ratio is min(1, V / U) rounded to four decimals, V being the
\* summed placed volume and U the usable-region volume.
C15_MetricsFromFinalState ==
    (metrics # None /\ UsableVolume > 0) =>
        /\ metrics[1].total_boxes = Len(boxes)
        /\ metrics[1].placed_boxes = Len(placements)
        /\ metrics[1].placed_boxes + Len(unplaced_box_ids) = metrics[1].total_boxes
        /\ 2 * Abs(metrics[1].used_volume_ratio * UsableVolume
                     - 10000 * Min(PlacedVolume, UsableVolume)) <= UsableVolume

\* C15 witness: a result on a bed with a margin, with boxes placed and
\* boxes left out, whose volume ratio is not a multiple of 0.0001
C15_Witness ==
    /\ metrics # None
    /\ Margin_t > 0
    /\ placements # <<>>
    /\ unplaced_box_ids # <<>>
    /\ (10000 * PlacedVolume) % UsableVolume # 0

\* the usable region has no extent along some axis
DegenerateRegion ==
    \/ bed.length - 2 * Margin_t <= 0
    \/ bed.width - 2 * Margin_t <= 0
    \/ bed.height <= 0

\* C16: on a degenerate usable region nothing is placed and nothing is
\* raised: no box is ever attempted, and the result has no placements,
\* every input box ID in unplaced_box_ids, and metrics with placed_boxes = 0,
\* used_volume_ratio = 0, free_volume_ratio = 1 and fragmentation_score = 1.
C16_DegenerateRegion ==
    DegenerateRegion =>
        /\ pc \in {"start", "done"}
        /\ placed_boxes = <<>>
        /\ pc = "done" =>
              /\ placements = <<>>
              /\ Len(unplaced_box_ids) = Len(boxes)
              /\ {unplaced_box_ids[i] : i \in DOMAIN unplaced_box_ids}
                    = {boxes[i].id : i \in DOMAIN boxes}
              /\ metrics = Some([total_boxes |-> Len(boxes), placed_boxes |-> 0,
                                 used_volume_ratio |-> 0, free_volume_ratio |-> 10000,
                                 fragmentation_score |-> 10000])

\* C16 witness: the result of a request of several boxes on a bed whose
\* margins leave no usable width
C16_Witness ==
    /\ DegenerateRegion
    /\ pc = "done"
    /\ Len(boxes) >= 2
    /\ bed.width - 2 * Margin_t <= 0
    /\ bed.length - 2 * Margin_t > 0

\* dimensions that fit the usable region on all three axes
FitsRegion(l, w, h) ==
    /\ l <= bed.length - 2 * Margin_t
    /\ w <= bed.width - 2 * Margin_t
    /\ h <= bed.height

NoFlags(box) == ~ box.can_rotate_x /\ ~ box.can_rotate_y /\ ~ box.can_rotate_z

\* C17: a box whose three rotation flags are all false is only ever placed
\* in the identity orientation (length, width, height); if its own
\* dimensions do not fit the usable region it is reported unplaced, even
\* when a rotated orientation would fit.
C17_NoRotationIdentityOnly ==
    /\ \A i \in Committed :
          NoFlags(placed_boxes[i].box) =>
              /\ placed_boxes[i].placement.orientation = <<"length", "width", "height">>
              /\ placed_boxes[i].placed_length = placed_boxes[i].box.length
              /\ placed_boxes[i].placed_width = placed_boxes[i].box.width
              /\ placed_boxes[i].placed_height = placed_boxes[i].box.height
    /\ pc = "done" =>
          \A i \in DOMAIN boxes :
              (NoFlags(boxes[i]) /\ ~ FitsRegion(boxes[i].length, boxes[i].width, boxes[i].height))
                  => \E k \in DOMAIN unplaced_box_ids : unplaced_box_ids[k] = boxes[i].id

\* C17 witness: a result that leaves out a box with no rotation flag which
\* is too high for the bed as given and would fit lying on its side
C17_Witness ==
    /\ pc = "done"
    /\ ~ DegenerateRegion
    /\ \E i \in DOMAIN boxes :
          /\ NoFlags(boxes[i])
          /\ ~ FitsRegion(boxes[i].length, boxes[i].width, boxes[i].height)
          /\ FitsRegion(boxes[i].length, boxes[i].height, boxes[i].width)
          /\ \E k \in DOMAIN unplaced_box_ids : unplaced_box_ids[k] = boxes[i].id

\* the orientation with the given axes is among those the enumerator returns
Available(box, axes) ==
    \E k \in DOMAIN get_box_orientations(box) : get_box_orientations(box)[k][4] = axes

DistinctDims(box) ==
    box.length # box.width /\ box.width # box.height /\ box.length # box.height

\* C18: each rotation flag alone permits its own swap.  For a box with
\* pairwise distinct dimensions, can_rotate_x alone makes (length, height,
\* width) available, can_rotate_y alone makes (height, width, length)
\* available and can_rotate_z alone makes (width, length, height) available.
C18_EachFlagAlone ==
    \A i \in DOMAIN boxes :
        DistinctDims(boxes[i]) =>
            /\ (boxes[i].can_rotate_x /\ ~ boxes[i].can_rotate_y /\ ~ boxes[i].can_rotate_z)
                  => Available(boxes[i], <<"length", "height", "width">>)
            /\ (~ boxes[i].can_rotate_x /\ boxes[i].can_rotate_y /\ ~ boxes[i].can_rotate_z)
                  => Available(boxes[i], <<"height", "width", "length">>)
            /\ (~ boxes[i].can_rotate_x /\ ~ boxes[i].can_rotate_y /\ boxes[i].can_rotate_z)
                  => Available(boxes[i], <<"width", "length", "height">>)

\* some orientation the enumerator allows fits the usable region
SomeOrientationFits(box) ==
    \E k \in DOMAIN get_box_orientations(box) :
        FitsRegion(get_box_orientations(box)[k][1], get_box_orientations(box)[k][2],
                   get_box_orientations(box)[k][3])

\* the first box of the order has been attempted: the loop has moved past
\* it or has ended on it
FirstAttempted ==
    /\ pc \in {"loop", "done", "raised"}
    /\ sorted_boxes # <<>>
    /\ idx >= 2 \/ pc = "raised"

FirstPlaced ==
    /\ placed_boxes # <<>>
    /\ placed_boxes[1].box.id = sorted_boxes[1].id
    /\ placements[1].box_id = sorted_boxes[1].id

\* C19: on a bed without rounded corners and with a positive usable
\* region, the first box attempted is placed if and only if one of its
\* allowed orientations fits the usable region on all three axes, and it
\* is then placed on the floor at the usable-region origin:
\* z = 0, x = y = bed.margin + settings.margin.
C19_FirstBoxPlacedIffFits ==
    (bed.corner_radius \in {None, Some(0)} /\ ~ DegenerateRegion /\ FirstAttempted) =>
        /\ SomeOrientationFits(sorted_boxes[1]) <=> FirstPlaced
        /\ FirstPlaced =>
              /\ placements[1].x = Margin_t
              /\ placements[1].y = Margin_t
              /\ placements[1].z = 0

\* the ordering score of a box under the request's accessibility_preference
Score(box) == calculate_box_score(box, settings.accessibility_preference)

\* the position of a box in the input list
InputPosition(box) == CHOOSE k \in DOMAIN boxes : boxes[k].id = box.id

\* the boxes attempted so far: those the loop has moved past
Attempted == {sorted_boxes[k].id : k \in {m \in DOMAIN sorted_boxes : m < idx}}

FragilityRank(fragility) ==
    CASE fragility = "robust" -> 0
      [] fragility = "normal" -> 1
      [] fragility = "fragile" -> 2

\* C20: boxes are attempted in ascending order of the ordering score, boxes
\* of equal score in their input order; so of two boxes that differ only in
\* weight the heavier is attempted first, and of two that differ only in
\* fragility the more robust is attempted first.
C20_AttemptOrder ==
    (pc \in {"loop", "done", "raised"} /\ ~ DegenerateRegion) =>
        /\ Len(sorted_boxes) = Len(boxes)
        /\ {sorted_boxes[k].id : k \in DOMAIN sorted_boxes} = {boxes[k].id : k \in DOMAIN boxes}
        /\ {ReturnedIds[k] : k \in DOMAIN ReturnedIds} = Attempted
        /\ \A scores \in {[k \in DOMAIN sorted_boxes |-> Score(sorted_boxes[k])]} :
              \A i, j \in DOMAIN sorted_boxes :
                  i < j =>
                     \/ scores[i] < scores[j]
                     \/ /\ scores[i] = scores[j]
                        /\ InputPosition(sorted_boxes[i]) < InputPosition(sorted_boxes[j])
        /\ \A i, j \in DOMAIN sorted_boxes :
              i < j =>
                 /\ [sorted_boxes[i] EXCEPT !.id = 0, !.weight = 0]
                       = [sorted_boxes[j] EXCEPT !.id = 0, !.weight = 0]
                    => sorted_boxes[i].weight >= sorted_boxes[j].weight
                 /\ [sorted_boxes[i] EXCEPT !.id = 0, !.fragility = "normal"]
                       = [sorted_boxes[j] EXCEPT !.id = 0, !.fragility = "normal"]
                    => FragilityRank(sorted_boxes[i].fragility)
                          <= FragilityRank(sorted_boxes[j].fragility)

\* C20 witness: a loop that has attempted, against their input order, a
\* heavier box before a lighter one that is otherwise equal and a robust box
\* before a normal one that is otherwise equal, with two boxes of equal score
C20_Witness ==
    /\ pc = "loop"
    /\ idx > Len(sorted_boxes)
    /\ \E i, j \in DOMAIN sorted_boxes :
          /\ i < j
          /\ InputPosition(sorted_boxes[i]) > InputPosition(sorted_boxes[j])
          /\ sorted_boxes[i].weight > sorted_boxes[j].weight
          /\ [sorted_boxes[i] EXCEPT !.id = 0, !.weight = 0]
                = [sorted_boxes[j] EXCEPT !.id = 0, !.weight = 0]
    /\ \E i, j \in DOMAIN sorted_boxes :
          /\ i < j
          /\ InputPosition(sorted_boxes[i]) > InputPosition(sorted_boxes[j])
          /\ FragilityRank(sorted_boxes[i].fragility) < FragilityRank(sorted_boxes[j].fragility)
          /\ [sorted_boxes[i] EXCEPT !.id = 0, !.fragility = "normal"]
                = [sorted_boxes[j] EXCEPT !.id = 0, !.fragility = "normal"]

\* the position of the box with the given ID in the order of attempts
AttemptPosition(id) == CHOOSE k \in DOMAIN sorted_boxes : sorted_boxes[k].id = id

\* C21: a box with no feasible (orientation, position) is not an error.  Its
\* ID goes to unplaced_box_ids and the loop goes on to the next box, so
\* every box the loop has passed is in exactly one of the two lists, and
\* both placements and unplaced_box_ids list their boxes in the order in
\* which the boxes were attempted.
C21_SkipIsNotAnError ==
    (pc \in {"loop", "done"} /\ ~ DegenerateRegion) =>
        /\ idx - 1 = Len(placements) + Len(unplaced_box_ids)
        /\ pc = "done" => idx = Len(boxes) + 1
        /\ \A i, j \in DOMAIN placements :
              i < j => AttemptPosition(placements[i].box_id)
                          < AttemptPosition(placements[j].box_id)
        /\ \A i, j \in DOMAIN unplaced_box_ids :
              i < j => AttemptPosition(unplaced_box_ids[i])
                          < AttemptPosition(unplaced_box_ids[j])
        /\ \A i \in DOMAIN placements : AttemptPosition(placements[i].box_id) < idx
        /\ \A i \in DOMAIN unplaced_box_ids : AttemptPosition(unplaced_box_ids[i]) < idx

\* C21 witness: a result in which a box was left out and a box attempted
\* after it was placed, with two boxes left out in all
C21_Witness ==
    /\ pc = "done"
    /\ Len(unplaced_box_ids) >= 2
    /\ \E i \in DOMAIN unplaced_box_ids :
          \E j \in DOMAIN placements :
              AttemptPosition(unplaced_box_ids[i]) < AttemptPosition(placements[j].box_id)

\* the footprint length x width passes the corner test at some floor
\* position inside the usable region
PassesSomewhere(length, width) ==
    \E x \in Margin_t..(bed.length - Margin_t - length) :
        \E y \in Margin_t..(bed.width - Margin_t - width) :
            ~ box_intersects_corner(x, y, length, width, bed.length, bed.width,
                                    Radius_r, Margin_t)

\* some allowed orientation of the box fits the usable region and has a
\* floor position at which its footprint passes the corner test
PlaceableOnFloor(box) ==
    \E k \in DOMAIN get_box_orientations(box) :
        /\ FitsRegion(get_box_orientations(box)[k][1], get_box_orientations(box)[k][2],
                      get_box_orientations(box)[k][3])
        /\ PassesSomewhere(get_box_orientations(box)[k][1], get_box_orientations(box)[k][2])

\* C22: on a bed with corner radius r > 0 the first box attempted is placed
\* whenever one of its allowed orientations fits the usable region and has
\* a floor position inside the usable region at which its footprint passes
\* the 8-point corner-exclusion test.
C22_RoundedCornersLeaveRoom ==
    (/\ bed.corner_radius # None
     /\ Radius_r > 0
     /\ ~ DegenerateRegion
     /\ FirstAttempted
     /\ PlaceableOnFloor(sorted_boxes[1])) => FirstPlaced

\* the three corner points that the committed box r offers to later boxes
CornerPointsOf(r) ==
    { <<x_end(r) + Padding_p, r.placement.y, r.placement.z>>,
      <<r.placement.x, y_end(r) + Padding_p, r.placement.z>>,
      <<r.placement.x, r.placement.y, z_end(r) + Padding_p>> }

PositionOf(pb) == <<pb.placement.x, pb.placement.y, pb.placement.z>>

\* C23: every committed position is a corner point: the usable-region origin
\* (t, t, 0) or, for a box r committed earlier, one of (r.x_end + p, r.y, r.z),
\* (r.x, r.y_end + p, r.z), (r.x, r.y, r.z_end + p).  Hence every committed z
\* is 0 or the top of an earlier placed box plus the padding.
C23_CornerPoints ==
    \A i \in Committed :
        /\ \/ PositionOf(placed_boxes[i]) = <<Margin_t, Margin_t, 0>>
           \/ \E j \in 1..(i - 1) : PositionOf(placed_boxes[i]) \in CornerPointsOf(placed_boxes[j])
        /\ \/ placed_boxes[i].placement.z = 0
           \/ \E j \in 1..(i - 1) :
                 placed_boxes[i].placement.z = z_end(placed_boxes[j]) + Padding_p

\* C23 witness: three boxes committed, one of them above the floor and
\* another on the floor away from the usable-region origin
C23_Witness ==
    /\ Len(placed_boxes) >= 3
    /\ \E i, j \in Committed :
          /\ i # j
          /\ placed_boxes[i].placement.z > 0
          /\ placed_boxes[j].placement.z = 0
          /\ PositionOf(placed_boxes[j]) # <<Margin_t, Margin_t, 0>>

\* the placed box r lies directly under a base at height z with the given
\* footprint: its top plus the padding is at z (within 0.1 cm) and the
\* footprints overlap with positive area
DirectlyUnder(r, x, y, z, length, width) ==
    /\ 10 * Abs(z_end(r) + Padding_p - z) <= Unit
    /\ overlap_area(x, y, length, width, r) > 0

\* the weight of the boxes among placed_boxes that rest directly on r
WeightDirectlyOn(r) ==
    SumSeq([k \in DOMAIN placed_boxes |->
        IF DirectlyUnder(r, placed_boxes[k].placement.x, placed_boxes[k].placement.y,
                         placed_boxes[k].placement.z, placed_boxes[k].placed_length,
                         placed_boxes[k].placed_width)
        THEN placed_boxes[k].box.weight ELSE 0])

\* the one-level load rule for a box of the given weight at the candidate c
\* with the footprint length x width: every placed box directly under it
\* has no limit or carries, with the candidate, no more than its limit
OneLevelLoadOk(weight, c, length, width) ==
    \A k \in DOMAIN placed_boxes :
        DirectlyUnder(placed_boxes[k], c[1], c[2], c[3], length, width) =>
            \/ placed_boxes[k].box.max_supported_load = None
            \/ WeightDirectlyOn(placed_boxes[k]) + weight
                  <= placed_boxes[k].box.max_supported_load[1]

\* C24: the load check is one level deep.  For the box being attempted, a
\* candidate above the floor passes the load check whenever each box directly
\* under it can carry what rests directly on it plus the candidate, whatever
\* the boxes further down carry; and the load the check attributes to a
\* supporter is at most the weight of the boxes resting directly on it.
C24_LoadCheckOneLevel ==
    (pc = "loop" /\ idx <= Len(sorted_boxes) /\ placed_boxes # <<>>) =>
        /\ \A k \in DOMAIN placed_boxes :
              current_load(placed_boxes[k], placed_boxes, BoxesById(boxes))
                  <= WeightDirectlyOn(placed_boxes[k])
        /\ \A tried \in {get_box_orientations(sorted_boxes[idx])} :
              \A cands \in {candidate_positions(placed_boxes, usable_space(bed, settings),
                                                Padding_p)} :
                  \A o \in DOMAIN tried :
                      \A c \in DOMAIN cands :
                          (/\ cands[c][3] > 0
                           /\ OneLevelLoadOk(sorted_boxes[idx].weight, cands[c],
                                             tried[o][1], tried[o][2]))
                              => check_load_constraint(sorted_boxes[idx],
                                     get_support_at_position(cands[c][1], cands[c][2],
                                         cands[c][3], tried[o][1], tried[o][2],
                                         placed_boxes, 0, Padding_p).supporting,
                                     placed_boxes, BoxesById(boxes))

\* C24 witness: a box C has been committed on a box B that rests on a box A,
\* and the weights of B and C together exceed the max_supported_load of A
C24_Witness ==
    \E a, b, c \in Committed :
        /\ a < b /\ b < c
        /\ RestsOn(b, a)
        /\ RestsOn(c, b)
        /\ ~ RestsOn(c, a)
        /\ placed_boxes[a].box.max_supported_load # None
        /\ placed_boxes[b].box.weight + placed_boxes[c].box.weight
              > placed_boxes[a].box.max_supported_load[1]

\* the number of placed boxes r for which the distance d(r) is within 0.1 cm
Adjacent(distances) ==
    SumSeq([k \in DOMAIN distances |-> IF 10 * Abs(distances[k]) < Unit THEN 1 ELSE 0])

\* the strategy score of the position c, times 100 * Unit: x + 0.1 * y +
\* 0.01 * z, and under minimize_holes 10 less for each placed box with
\* x_end + p = x, 10 less for each with y_end + p = y and 5 less for each
\* with z_end = z
StrategyScore(c) ==
    IF settings.strategy = "maximize_volume"
    THEN 100 * c[1] + 10 * c[2] + c[3]
    ELSE 100 * c[1] + 10 * c[2] + c[3]
         - 1000 * Unit * Adjacent([k \in DOMAIN placed_boxes |->
                                     x_end(placed_boxes[k]) + Padding_p - c[1]])
         - 1000 * Unit * Adjacent([k \in DOMAIN placed_boxes |->
                                     y_end(placed_boxes[k]) + Padding_p - c[2]])
         - 500 * Unit * Adjacent([k \in DOMAIN placed_boxes |->
                                    z_end(placed_boxes[k]) - c[3]])


\* the candidates among cands that are feasible for the box being attempted
\* in the placed dimensions o; the strategy is no part of the test
FeasibleCandidates(o, cands) ==
    {cands[c] : c \in {c \in DOMAIN cands :
        Feasible(sorted_boxes[idx], cands[c], o[1], o[2], o[3], placed_boxes,
                 BoxesById(boxes), usable_space(bed, settings), Padding_p, bed, Margin_t)}}

\* the result found is none when nothing is feasible and otherwise a
\* feasible candidate of least strategy score
LeastOf(found, feasible) ==
    IF feasible = {} THEN found = None
    ELSE /\ found # None
         /\ found[1] \in feasible
         /\ \A c \in feasible : StrategyScore(found[1]) <= StrategyScore(c)

\* C25: for each orientation find_placement_position returns a feasible
\* candidate of minimal strategy score, or no result when no candidate is
\* feasible.  Stated on every step that attempts a box, for each of the
\* orientations tried for it.
C25_MinimalStrategyScore ==
    [][(pc = "loop" /\ idx' = idx + 1) =>
          \A tried \in {tried_orientations(sorted_boxes[idx], bed, settings)} :
              \A cands \in {candidate_positions(placed_boxes, usable_space(bed, settings),
                                                Padding_p)} :
                  \A o \in DOMAIN tried :
                      LeastOf(find_placement_position(sorted_boxes[idx], tried[o],
                                  placed_boxes, BoxesById(boxes),
                                  usable_space(bed, settings), Padding_p,
                                  settings.strategy, bed, Margin_t).position,
                              FeasibleCandidates(tried[o], cands))]_vars

\* C25 witness: under minimize_holes a box has been committed at a position
\* although another candidate, feasible for it in the same orientation, had
\* the smaller x + 0.1 * y + 0.01 * z
C25_Witness ==
    /\ settings.strategy = "minimize_holes"
    /\ \E i \in Committed :
          \E c \in FeasibleAtCommit(i, <<placed_boxes[i].placed_length,
                                         placed_boxes[i].placed_width,
                                         placed_boxes[i].placed_height>>) :
              100 * c[1] + 10 * c[2] + c[3]
                  < 100 * placed_boxes[i].placement.x + 10 * placed_boxes[i].placement.y
                        + placed_boxes[i].placement.z

\* the six orderings of the three axis labels
LabelPermutations ==
    {p \in [1..3 -> {"length", "width", "height"}] : {p[1], p[2], p[3]} = {"length", "width", "height"}}

\* the dimension of the box that a label names
ReadThrough(box, label) ==
    IF label = "length" THEN box.length
    ELSE IF label = "width" THEN box.width
    ELSE box.height

\* C26: for every box and every combination of rotation flags,
\* get_box_orientations returns a non-empty list of at most six tuples whose
\* first element is the identity orientation; the labels of each tuple are a
\* permutation of (length, width, height), its placed dimensions are the
\* box's dimensions read through those labels, and no two tuples have the
\* same placed dimensions, so that a cube yields exactly one.
C26_Orientations ==
    (pc = "loop" /\ idx <= Len(sorted_boxes)) =>
        \A box \in {sorted_boxes[idx]} :
            \A orientations \in {get_box_orientations(box)} :
                /\ Len(orientations) \in 1..6
                /\ orientations[1]
                      = <<box.length, box.width, box.height, <<"length", "width", "height">> >>
                /\ \A k \in DOMAIN orientations :
                      /\ orientations[k][4] \in LabelPermutations
                      /\ orientations[k][1] = ReadThrough(box, orientations[k][4][1])
                      /\ orientations[k][2] = ReadThrough(box, orientations[k][4][2])
                      /\ orientations[k][3] = ReadThrough(box, orientations[k][4][3])
                /\ \A k, m \in DOMAIN orientations :
                      k # m => <<orientations[k][1], orientations[k][2], orientations[k][3]>>
                                  # <<orientations[m][1], orientations[m][2], orientations[m][3]>>
                /\ (box.length = box.width /\ box.width = box.height)
                      => Len(orientations) = 1

\* C26 witness: the loop has reached a cube that may be turned every way,
\* after a box with two equal dimensions or with a single rotation flag
C26_Witness ==
    /\ pc = "loop"
    /\ idx <= Len(sorted_boxes)
    /\ idx >= 2
    /\ sorted_boxes[idx].length = sorted_boxes[idx].width
    /\ sorted_boxes[idx].width = sorted_boxes[idx].height
    /\ sorted_boxes[idx].can_rotate_x /\ sorted_boxes[idx].can_rotate_y
    /\ sorted_boxes[idx].can_rotate_z
    /\ Len(get_box_orientations(sorted_boxes[idx - 1])) \in 2..5

\* the found position c is the earliest generated of the feasible candidates
\* that share its strategy score
EarliestOfEqual(c, o, cands) ==
    \A k \in DOMAIN cands :
        (/\ StrategyScore(cands[k]) = StrategyScore(c)
         /\ Feasible(sorted_boxes[idx], cands[k], o[1], o[2], o[3], placed_boxes,
                     BoxesById(boxes), usable_space(bed, settings), Padding_p, bed,
                     Margin_t))
            => \E j \in 1..k : cands[j] = c

\* C27: ties are resolved by enumeration order.  On every step that commits
\* a box, the committed orientation is the earliest of the tried
\* orientations whose found position has the committed outer score
\* z * 1000 + x + 0.1 * y, hence the identity whenever the identity attains
\* it, and the position found in each orientation is the earliest generated
\* of the feasible candidates of equal strategy score.
C27_TiesByEnumerationOrder ==
    [][(pc = "loop" /\ Len(placed_boxes') = Len(placed_boxes) + 1) =>
          \A tried \in {tried_orientations(sorted_boxes[idx], bed, settings)} :
            \A cands \in {candidate_positions(placed_boxes, usable_space(bed, settings),
                                              Padding_p)} :
              \A found \in {[o \in DOMAIN tried |->
                               find_placement_position(sorted_boxes[idx], tried[o],
                                   placed_boxes, BoxesById(boxes),
                                   usable_space(bed, settings), Padding_p,
                                   settings.strategy, bed, Margin_t).position]} :
                \A pb \in {placed_boxes'[Len(placed_boxes')]} :
                  /\ \E o \in DOMAIN tried :
                        /\ tried[o][4] = pb.placement.orientation
                        /\ found[o] = Some(PositionOf(pb))
                        /\ \A m \in DOMAIN tried :
                              (/\ found[m] # None
                               /\ LowestFirstScore(found[m][1][1], found[m][1][2],
                                                   found[m][1][3])
                                    = LowestFirstScore(pb.placement.x, pb.placement.y,
                                                       pb.placement.z))
                                 => o <= m
                  /\ (\E m \in DOMAIN tried :
                         /\ tried[m][4] = <<"length", "width", "height">>
                         /\ found[m] # None
                         /\ LowestFirstScore(found[m][1][1], found[m][1][2], found[m][1][3])
                              = LowestFirstScore(pb.placement.x, pb.placement.y,
                                                 pb.placement.z))
                        => pb.placement.orientation = <<"length", "width", "height">>
                  /\ \A o \in DOMAIN tried :
                        found[o] # None => EarliestOfEqual(found[o][1], tried[o], cands)]_vars

\* C27 witness: a box has been committed in an orientation whose found
\* position tied in outer score with that of another tried orientation, and
\* a box has been committed at a position that tied in strategy score with
\* a different feasible candidate of the same orientation
C27_Witness ==
    /\ \E i \in Committed :
          \E o \in TriedAtCommit(i) :
              /\ o[4] # placed_boxes[i].placement.orientation
              /\ WinnerAtCommit(i, o) # None
              /\ LowestFirstScore(WinnerAtCommit(i, o)[1][1], WinnerAtCommit(i, o)[1][2],
                                  WinnerAtCommit(i, o)[1][3])
                   = LowestFirstScore(placed_boxes[i].placement.x,
                                      placed_boxes[i].placement.y,
                                      placed_boxes[i].placement.z)
    /\ \E i \in Committed :
          \E c \in FeasibleAtCommit(i, <<placed_boxes[i].placed_length,
                                         placed_boxes[i].placed_width,
                                         placed_boxes[i].placed_height>>) :
              /\ c # PositionOf(placed_boxes[i])
              /\ position_score(c, PlacedBefore(i), Padding_p, settings.strategy)
                   = position_score(PositionOf(placed_boxes[i]), PlacedBefore(i),
                                    Padding_p, settings.strategy)

\* the sequence s is the beginning of the sequence t
IsPrefix(s, t) == Len(s) <= Len(t) /\ SubSeq(t, 1, Len(s)) = s

\* C28: attempting a box leaves every earlier commitment unchanged.  On every
\* step the bed, boxes and settings stay as given and the placements, the
\* placed-box records (position, orientation, placed dimensions) and
\* unplaced_box_ids keep their earlier entries in place; a step that
\* attempts a box appends either one placement with its record or one
\* unplaced id, and nothing else.
C28_EarlierCommitmentsKept ==
    [][/\ bed' = bed /\ boxes' = boxes /\ settings' = settings
       /\ IsPrefix(placements, placements')
       /\ IsPrefix(placed_boxes, placed_boxes')
       /\ IsPrefix(unplaced_box_ids, unplaced_box_ids')
       /\ (pc = "loop" /\ idx' # idx) =>
             \/ /\ Len(placements') = Len(placements) + 1
                /\ Len(placed_boxes') = Len(placed_boxes) + 1
                /\ placements'[Len(placements')].box_id = sorted_boxes[idx].id
                /\ placed_boxes'[Len(placed_boxes')].placement = placements'[Len(placements')]
                /\ unplaced_box_ids' = unplaced_box_ids
             \/ /\ unplaced_box_ids' = Append(unplaced_box_ids, sorted_boxes[idx].id)
                /\ placements' = placements
                /\ placed_boxes' = placed_boxes]_vars

\* C28 witness: a box was placed, then two boxes were recorded as unplaced,
\* and the placement and the first unplaced id are still in their places
C28_Witness ==
    /\ pc = "loop"
    /\ ~ DegenerateRegion
    /\ Len(placements) >= 1
    /\ Len(unplaced_box_ids) >= 2
    /\ placements[1].box_id = sorted_boxes[1].id
    /\ unplaced_box_ids[1] = sorted_boxes[2].id
    /\ unplaced_box_ids[2] = sorted_boxes[3].id

\* engine.py:565: the loop has a box to attempt
Attempting == pc = "loop" /\ idx <= Len(sorted_boxes)

\* Weak fairness of the loop body (PlaceBox, SkipBox or RaiseAttributeError):
\* the body is enabled exactly in the states Attempting, since
\* best_placement is a total function whose result selects one of the three,
\* and each of them changes idx or pc.
LoopBodyRuns == []<>(~ Attempting) \/ []<><<idx' # idx \/ pc' # pc>>_vars

\* One call of optimize_packing in which the interpreter keeps executing:
\* a statement that can be executed is executed.
FairSpec ==
    /\ Spec
    /\ WF_vars(ReturnDegenerate)
    /\ WF_vars(SortBoxes)
    /\ WF_vars(ReturnResult)
    /\ LoopBodyRuns

\* C29 as stated: for every input the call returns, and when it returns it
\* has attempted each input box exactly once, every box being recorded once
\* as placed or as unplaced (with a degenerate usable region, as unplaced
\* without an attempt).
C29_ReturnsAfterEachBox ==
    <>(/\ pc = "done"
       /\ Len(placements) + Len(unplaced_box_ids) = Len(boxes)
       /\ DegenerateRegion \/ idx = Len(boxes) + 1)

-----------------------------------------------------------------------------
(* schemas.py: OptimizeRequest.validate_request, the cross-field check of  *)
(* a request before it reaches the engine.                                  *)

\* schemas.py:307-308: the ids that occur more than once in the request
duplicates(bs) ==
    {bs[i].id : i \in {i \in DOMAIN bs : \E j \in DOMAIN bs : j # i /\ bs[j].id = bs[i].id}}

\* schemas.py:316-319: the usable space as the validator computes it
request_usable(b, s) ==
    [length |-> b.length - 2 * (b.margin + s.margin),
     width |-> b.width - 2 * (b.margin + s.margin),
     height |-> b.height]

\* sorted([a, b, c]) of schemas.py:329-330
sorted_dims(d) ==
    <<Min(d[1], Min(d[2], d[3])),
      d[1] + d[2] + d[3] - Min(d[1], Min(d[2], d[3])) - Max(d[1], Max(d[2], d[3])),
      Max(d[1], Max(d[2], d[3]))>>

\* the fit check as it would be if the dimensions were compared as given
can_fit_AsGiven(box, usable) ==
    /\ box.length <= usable.length
    /\ box.width <= usable.width
    /\ box.height <= usable.height

\* schemas.py:329-333: all(d <= b for d, b in zip(dims, bed_dims))
can_fit(box, usable) ==
    \A k \in 1..3 :
        sorted_dims(<<box.length, box.width, box.height>>)[k]
            <= sorted_dims(<<usable.length, usable.width, usable.height>>)[k]

\* schemas.py:304-340: the errors collected for a request: the duplicated
\* ids, whether the margins leave no usable space, and the positions of the
\* boxes that cannot fit (looked at only when there is usable space)
request_errors(b, bs, s) ==
    [duplicate_ids |-> duplicates(bs),
     no_usable_space |-> request_usable(b, s).length <= 0 \/ request_usable(b, s).width <= 0,
     cannot_fit |->
         IF request_usable(b, s).length <= 0 \/ request_usable(b, s).width <= 0
         THEN {}
         ELSE {i \in DOMAIN bs : ~ can_fit(bs[i], request_usable(b, s))}]

\* schemas.py:342-343: if errors: raise ValueError
request_is_refused(b, bs, s) ==
    \/ request_errors(b, bs, s).duplicate_ids # {}
    \/ request_errors(b, bs, s).no_usable_space
    \/ request_errors(b, bs, s).cannot_fit # {}

\* The kinds of box a request to the validator is made of: one that fits as
\* given, one that is too high for the lower beds as given and fits when
\* turned, one too long for every bed, and one with two sides that are both
\* longer than the bed is wide
RequestKinds ==
    { BoxInput(Unit, Unit, 2, 3, "normal", "rare", "optional", NoRotation, None),
      BoxInput(Unit, Unit \div 2, Unit + 4, 3, "normal", "rare", "optional", NoRotation, None),
      BoxInput(4 * Unit, Unit, Unit, 3, "normal", "rare", "optional", AnyRotation, None),
      BoxInput(2 * Unit + 2, 1, 2 * Unit + 2, 3, "normal", "rare", "optional", AnyRotation, None) }

\* the longest request to the validator, and the number of ids to choose from
MaxRequest == 2

\* requests whose ids the caller chose, so that two boxes may share one
RequestLists ==
    UNION { {[i \in 1..n |-> [id |-> ids[i]] @@ kinds[i]] :
                 kinds \in [1..n -> RequestKinds], ids \in [1..n -> 1..MaxRequest]} :
            n \in 0..MaxRequest }

\* a request as it arrives: the bed schema always carries a corner_radius
RequestInit ==
    /\ bed \in BedsSquare \cup BedsRounded
    /\ boxes \in RequestLists
    /\ settings \in SettingsSet
    /\ pc = "request"
    /\ sorted_boxes = <<>>
    /\ idx = 1
    /\ placed_boxes = <<>>
    /\ placements = <<>>
    /\ unplaced_box_ids = <<>>
    /\ metrics = None

\* schemas.py:345: the validator returns the request
AcceptRequest ==
    /\ pc = "request"
    /\ ~ request_is_refused(bed, boxes, settings)
    /\ pc' = "accepted"
    /\ UNCHANGED <<bed, boxes, settings, sorted_boxes, idx, placed_boxes,
                   placements, unplaced_box_ids, metrics>>

\* schemas.py:342-343: the validator raises ValueError and the request goes
\* no further
RejectRequest ==
    /\ pc = "request"
    /\ request_is_refused(bed, boxes, settings)
    /\ pc' = "rejected"
    /\ UNCHANGED <<bed, boxes, settings, sorted_boxes, idx, placed_boxes,
                   placements, unplaced_box_ids, metrics>>

RequestNext ==
    \/ AcceptRequest
    \/ RejectRequest

RequestSpec == RequestInit /\ [][RequestNext]_vars

\* some permutation of the dimensions of box fits the usable region
\* (L - 2t, W - 2t, H) on every axis, t being bed margin plus settings margin
SomePermutationFits(box) ==
    \E p \in LabelPermutations :
        /\ ReadThrough(box, p[1]) <= bed.length - 2 * (bed.margin + settings.margin)
        /\ ReadThrough(box, p[2]) <= bed.width - 2 * (bed.margin + settings.margin)
        /\ ReadThrough(box, p[3]) <= bed.height

\* the request has distinct ids, positive usable length and width, and only
\* boxes that fit the usable region in some permutation of their dimensions
WellFormedRequest ==
    /\ \A i, j \in DOMAIN boxes : i # j => boxes[i].id # boxes[j].id
    /\ bed.length - 2 * (bed.margin + settings.margin) > 0
    /\ bed.width - 2 * (bed.margin + settings.margin) > 0
    /\ \A i \in DOMAIN boxes : SomePermutationFits(boxes[i])

\* C30: the validator's fit check is exact: the comparison of the sorted box
\* dimensions with the sorted usable dimensions accepts a box if and only if
\* some permutation of its dimensions fits the usable region
\* (L - 2t, W - 2t, H) on every axis; a request is accepted only with
\* distinct ids, positive usable length and width and boxes that all fit,
\* and is rejected otherwise, before the engine has done anything.
C30_FitCheckExact ==
    /\ \A i \in DOMAIN boxes :
          can_fit(boxes[i], request_usable(bed, settings)) <=> SomePermutationFits(boxes[i])
    /\ pc = "accepted" => WellFormedRequest
    /\ pc = "rejected" =>
          /\ ~ WellFormedRequest
          /\ sorted_boxes = <<>> /\ placements = <<>> /\ metrics = None

\* C30 witness: a request has been accepted with a box that does not fit as
\* given and fits when its dimensions are permuted
C30_Witness ==
    /\ pc = "accepted"
    /\ \E i \in DOMAIN boxes :
          /\ boxes[i].height > bed.height
          /\ SomePermutationFits(boxes[i])

====
